---- MODULE Spec2Model ----
(***************************************************************************)
(* Model of the flyby33 pipeline (src/main.py, src/sql_utils.py,           *)
(* src/streamlit_app.py).                                                  *)
(*                                                                         *)
(*   Spec / FairSpec : one refresh cycle of Utils.fetch_api_flights, the   *)
(*                     bulk query with its retries, the per-aircraft      *)
(*                     tasks behind the asyncio.Semaphore, the result      *)
(*                     stream and the caller that consumes it.             *)
(*   SpecFusion      : the stored trails of one aircraft over many cycles  *)
(*                     (DatabaseUtils.save_flights_to_db) and the fused    *)
(*                     window of Utils.prepare_flight_list.                *)
(*   SpecPrepare     : one call of Utils.prepare_flight_list on the rows   *)
(*                     loaded from the store, with the flyby prediction    *)
(*                     of Utils._process_flyby_data for every row.         *)
(*   SpecMerge       : the merge of the basic snapshot and the detail      *)
(*                     record in Utils._process_flight.                    *)
(***************************************************************************)
EXTENDS Integers, Sequences, FiniteSets, TLC

VARIABLES
    \* ---- one cycle of fetch_api_flights ----
    run_detailed_api,        \* parameter of fetch_api_flights
    last_fetch_timestamp_details, \* column of the store, per aircraft, seconds
    flights_with_details,    \* parameter: ids with recent detail in the store
    max_concurrent_requests, \* parameter: the semaphore's initial value
    cyclePc,                 \* position of the async generator
    bulkAttempt,             \* attempts made by _fetch_flights_with_retry
    bulkFails,               \* how many of them raised
    flights_api_fetch,       \* "unset" | "None" | "list"
    flights,                 \* the filtered list the tasks are created from
    pc,                      \* per aircraft: position of its _process_flight task
    attempt,                 \* per aircraft: loop variable of _fetch_flight_details
    fails,                   \* per aircraft: attempts that raised
    backoff,                 \* per aircraft: seconds slept in asyncio.sleep so far
    semaphore,               \* asyncio.Semaphore._value
    waiters,                 \* asyncio.Semaphore._waiters (FIFO)
    results,                 \* per aircraft: the flight_data its task returned
    completed,               \* tasks finished and not yet taken by as_completed
    yielded,                 \* the records the generator has yielded, in order
    callerPc,                \* the caller of the pipeline
    stored,                  \* flight ids written to the store in this cycle
    \* ---- store and trail fusion of one aircraft ----
    now,                     \* current unix time, seconds
    db_trail_data,           \* column flights.trail_data
    db_trail_data_details,   \* column flights.trail_data_details
    latest_trail_data,       \* relevant_trails of the last prepare_flight_list
    preparedAt,              \* current_unix_time of that call
    prepareStatus,           \* "none" | "ok" | "IndexError"
    \* ---- configuration ----
    origin_radius_km,        \* monitoring radius, km
    ignore_airport_proximity,\* setting of the same name
    \* ---- one call of prepare_flight_list ----
    flight_active_list_db_load, \* parameter: the rows loaded from the store
    prepared_flights,        \* the list the call returned
    preparePc,               \* "idle" | "called" | "returned" | "IndexError"
    \* ---- the merge of _process_flight ----
    flight_obj,              \* flight: the basic snapshot of the aircraft
    details_obj,             \* flight_details: what _fetch_flight_details returned
    flight_data,             \* the record _process_flight returns
    mergePc,                 \* "idle" | "called" | "returned"
    \* ---- the table flights over many runs ----
    wall_clock,              \* datetime.now(), seconds
    db_flights,              \* the rows of the table, by flight_id
    deleted_ids,             \* the rows the DELETE of the last cleanup removed
    existing_flights_with_details, \* ids with recent detail, read at the start
    flight_active_list,      \* the list handed to save_flights_to_db
    storePc,                 \* position of the run
    save_index,              \* position of the loop of save_flights_to_db
    saved_count,             \* its counter (its return value at the end)
    written,                 \* ids whose write was executed in this call
    failed,                  \* ids whose SELECT or write raised in this call
    waits,                   \* runs of the program so far
    \* ---- one call of bearing_to_compass ----
    compass_bearing,         \* parameter bearing, in half degrees
    compass_dir,             \* the value returned
    compassPc,               \* "idle" | "called" | "returned"
    \* ---- successive cycles of one program ----
    cycle                    \* number of the cycle that is running

fetchVars == <<run_detailed_api, last_fetch_timestamp_details, flights_with_details, max_concurrent_requests,
               cyclePc, bulkAttempt, bulkFails, flights_api_fetch, flights, pc,
               attempt, fails, backoff, semaphore, waiters, results, completed,
               yielded, callerPc, stored>>

fusionVars == <<now, db_trail_data, db_trail_data_details, latest_trail_data,
                preparedAt, prepareStatus>>

configVars == <<origin_radius_km, ignore_airport_proximity>>

prepareVars == <<flight_active_list_db_load, prepared_flights, preparePc>>

mergeVars == <<flight_obj, details_obj, flight_data, mergePc>>

storeVars == <<wall_clock, db_flights, deleted_ids, existing_flights_with_details,
               flight_active_list, storePc, save_index, saved_count, written,
               failed, waits>>

compassVars == <<compass_bearing, compass_dir, compassPc>>

cycleVars == <<cycle>>

vars == <<fetchVars, fusionVars, configVars, prepareVars, mergeVars, storeVars,
          compassVars, cycleVars>>

(***************************************************************************)
(* Bounds of the model.                                                    *)
(***************************************************************************)
NumAircraft == 3        \* aircraft returned by the bulk query
MaxConcurrent == 2      \* largest concurrency bound K tried
MaxFailures == 5        \* detail-fetch attempts the source lets fail in a cycle
MaxTicks == 7           \* clock ticks of the store's history
TickSeconds == 60       \* seconds per clock tick
MaxStaleTicks == 1      \* how many ticks old a sample of the source may be
MaxDetailLen == 2       \* longest trail a detail record carries
PrepListLen == 2        \* rows handed to one call of prepare_flight_list
MaxWaits == 3           \* runs of the program after the first
MaxHalfDegrees == 1440  \* largest bearing tried, in half degrees, either sign
MaxCycles == 2          \* cycles one program runs

\* the aircraft of the bulk result that are airborne and in range
Aircraft == 1..NumAircraft

\* all aircraft of the bulk result: those and one that fails each filter
NumBulk == NumAircraft + 4
BulkIds == 1..NumBulk

\* the time at which the cycle starts, seconds
CycleStart == MaxTicks * TickSeconds

(***************************************************************************)
(* Program constants.                                                      *)
(***************************************************************************)
max_retries == 5        \* _fetch_flight_details(max_retries=5)
bulk_max_retries == 3   \* _fetch_flights_with_retry(max_retries=3)

max_age_minutes == 6    \* get_flights_with_details_fetched(max_age_minutes=6)
min_speed == 20         \* min_speed = 20
days_threshold == 7     \* cleanup_old_flights(days_threshold=7)
SecondsPerDay == 86400  \* timedelta(days=days_threshold)

None == 0               \* Python's None, for aircraft ids and timestamps

RECURSIVE Pow2(_)
Pow2(n) == IF n <= 0 THEN 1 ELSE 2 * Pow2(n - 1)

\* mutant: the exponent is the attempt number itself
wait_time_NoMinusOne(k) == Pow2(k)

\* wait_time = 2 ** (attempt - 1)
wait_time(k) == Pow2(k - 1)

\* mutant: the loop runs one attempt too many
IsLastAttempt_OffByOne(k) == k = max_retries + 1

\* if attempt == max_retries: return None
IsLastAttempt(k) == k = max_retries

\* mutant: the bulk query is tried once more before giving up
BulkGiveUp_OffByOne(k) == k = bulk_max_retries + 1

\* _fetch_flights_with_retry: if attempt == max_retries: return None
BulkGiveUp(k) == k = bulk_max_retries

\* fr_api.get_flight_details(flight): the detail record of that flight
FetchResponse(a) == a

(***************************************************************************)
(* _process_flight: the record of one aircraft. Every field names the      *)
(* aircraft whose data it holds; detail_of = None when no detail was       *)
(* merged.                                                                 *)
(***************************************************************************)
NoResult == [flight_id |-> None, basic_of |-> None, trail_of |-> None,
             detail_of |-> None, api_details_fetch |-> FALSE]

\* flight_data as built from the bulk snapshot
BasicFlightData(a) ==
    [flight_id |-> a, basic_of |-> a, trail_of |-> a,
     detail_of |-> None, api_details_fetch |-> FALSE]

\* mutant: a task whose detail fetch gave nothing returns no record
ProcessResult_DropsFailed(a, flight_details) ==
    IF flight_details # None
       THEN [BasicFlightData(a) EXCEPT !.detail_of = flight_details,
                                       !.api_details_fetch = TRUE]
       ELSE NoResult

\* if flight_details: flight_data.update(...); api_details_fetch = True
ProcessResult(a, flight_details) ==
    IF flight_details # None
       THEN [BasicFlightData(a) EXCEPT !.detail_of = flight_details,
                                       !.api_details_fetch = TRUE]
       ELSE BasicFlightData(a)

\* if run_detailed_api and flight.id not in flights_with_details
NeedsDetail(a) == run_detailed_api /\ a \notin flights_with_details

\* mutant: the gate admits while the counter is not negative
CanAcquire_OffByOne == semaphore >= 0 /\ waiters = <<>>

\* asyncio.Semaphore.locked() is false
CanAcquire == semaphore > 0 /\ waiters = <<>>

\* mutant: the record is labelled by submission index, not by its task
TaskResult_ByIndex(t) == [results[t] EXCEPT !.flight_id = flights[Len(yielded) + 1]]

\* result = await completed_task; yield result
TaskResult(t) == results[t]

RECURSIVE SumUpTo(_, _)
SumUpTo(f, n) == IF n = 0 THEN 0 ELSE f[n] + SumUpTo(f, n - 1)

\* attempts of the cycle that raised so far
TotalFails == SumUpTo(fails, NumBulk)

\* the aircraft a task was created for
TaskIds == {flights[i] : i \in 1..Len(flights)}

InFlight == {a \in TaskIds : pc[a] \in {"admitted", "fetching", "sleeping"}}

(***************************************************************************)
(* Units. A position is [dist10, bearing]: see the geometry below.         *)
(***************************************************************************)
Abs(x) == IF x < 0 THEN 0 - x ELSE x
Max(x, y) == IF x >= y THEN x ELSE y

\* round(num / den) of Python for num >= 0: to nearest, ties to even
RoundHalfEven(num, den) ==
    LET q == num \div den
        r2 == 2 * (num % den)
    IN IF r2 < den THEN q
       ELSE IF r2 > den THEN q + 1
       ELSE IF q % 2 = 0 THEN q ELSE q + 1

\* round(knots * 1.852)
knots_to_kmph(knots) == RoundHalfEven(knots * 1852, 1000)

\* round(haversine(coord1, coord2))
calculate_distance(position) == RoundHalfEven(position.dist10, 10)

(***************************************************************************)
(* get_flights_with_details_fetched: the ids whose stored detail timestamp *)
(* is less than max_age_minutes old. Times are whole seconds, as the       *)
(* stored "%Y-%m-%d %H:%M:%S" strings are.                                 *)
(***************************************************************************)
\* mutant: a timestamp of exactly max_age_minutes is still recent
is_recent_timestamp_Inclusive(current_time, timestamp) ==
    current_time - timestamp <= max_age_minutes * 60

\* time_diff.total_seconds() < max_age_minutes * 60
is_recent_timestamp(current_time, timestamp) ==
    current_time - timestamp < max_age_minutes * 60

get_flights_with_details_fetched(stored_times, current_time) ==
    {a \in DOMAIN stored_times :
        stored_times[a] # None /\ is_recent_timestamp(current_time, stored_times[a])}

\* the store at the start of the cycle: aircraft 1 has a detail timestamp
\* one second short of max_age_minutes old or none, aircraft 2 has one of
\* exactly max_age_minutes, the others have none
StoredDetailTimes ==
    {[a \in BulkIds |-> IF a = 1 THEN t
                         ELSE IF a = 2 THEN CycleStart - max_age_minutes * 60
                         ELSE None] :
        t \in {None, CycleStart - max_age_minutes * 60 + 1}}

(***************************************************************************)
(* fetch_api_flights, lines 645-656: the bulk result and its four filters. *)
(* ground_speed is in knots, altitude in feet, the position as in the      *)
(* geometry above.                                                         *)
(***************************************************************************)
FlightObj(id, aircraft_code, altitude, ground_speed, dist10) ==
    [id |-> id, aircraft_code |-> aircraft_code, altitude |-> altitude,
     ground_speed |-> ground_speed, position |-> [dist10 |-> dist10, bearing |-> 0]]

\* fr_api.get_flights(bounds=bounds) for a monitoring radius: aircraft 1
\* is at the lowest altitude and speed the filters keep, on the radius;
\* aircraft 2 is 400 m outside the radius; the last four fail one filter
\* each (ground vehicle, on the ground, 10 knots, 600 m outside)
BulkResult ==
    [i \in BulkIds |->
        CASE i = 1 -> FlightObj(i, "A320", 1, 11, origin_radius_km * 10)
          [] i = 2 -> FlightObj(i, "B738", 35000, 450, origin_radius_km * 10 + 4)
          [] i = NumAircraft + 1 -> FlightObj(i, "GRND", 35000, 450, 500)
          [] i = NumAircraft + 2 -> FlightObj(i, "A320", 0, 450, 500)
          [] i = NumAircraft + 3 -> FlightObj(i, "A320", 35000, 10, 500)
          [] i = NumAircraft + 4 -> FlightObj(i, "A320", 35000, 450, origin_radius_km * 10 + 6)
          [] OTHER -> FlightObj(i, "A320", 35000, 450, 500)]

\* flight.aircraft_code != 'GRND'
NotGroundVehicle(f) == f.aircraft_code # "GRND"

\* mutant: the altitude is not looked at
IsAirborne_Always(f) == TRUE

\* flight.altitude > 0
IsAirborne(f) == f.altitude > 0

\* Utils.knots_to_kmph(flight.ground_speed) >= min_speed
FastEnough(f) == knots_to_kmph(f.ground_speed) >= min_speed

\* Utils.calculate_distance(origin_location_coords, (lat, lng)) <= origin_radius_km
WithinRadius(f, radius_km) == calculate_distance(f.position) <= radius_km

FilterFlights(flight_list, radius_km) ==
    SelectSeq(flight_list,
              LAMBDA f : /\ NotGroundVehicle(f) /\ IsAirborne(f)
                         /\ FastEnough(f) /\ WithinRadius(f, radius_km))

FlightIds(flight_list) == [i \in 1..Len(flight_list) |-> flight_list[i].id]

(***************************************************************************)
(* Initial state of a cycle.                                               *)
(***************************************************************************)
FetchInit ==
    /\ run_detailed_api \in BOOLEAN
    /\ last_fetch_timestamp_details \in StoredDetailTimes
    /\ flights_with_details =
          IF run_detailed_api
             THEN get_flights_with_details_fetched(last_fetch_timestamp_details, CycleStart)
             ELSE {}
    /\ max_concurrent_requests \in 1..MaxConcurrent
    /\ cyclePc = "bulk"
    /\ bulkAttempt = 0
    /\ bulkFails = 0
    /\ flights_api_fetch = "unset"
    /\ flights = <<>>
    /\ pc = [a \in BulkIds |-> "none"]
    /\ attempt = [a \in BulkIds |-> 0]
    /\ fails = [a \in BulkIds |-> 0]
    /\ backoff = [a \in BulkIds |-> 0]
    /\ semaphore = 0
    /\ waiters = <<>>
    /\ results = [a \in BulkIds |-> NoResult]
    /\ completed = <<>>
    /\ yielded = <<>>
    /\ callerPc = "fetching"
    /\ stored = {}

FusionIdle ==
    /\ now = CycleStart
    /\ db_trail_data = <<>>
    /\ db_trail_data_details = <<>>
    /\ latest_trail_data = <<>>
    /\ preparedAt = 0
    /\ prepareStatus = "none"

(***************************************************************************)
(* _fetch_flights_with_retry: one attempt of the bulk query.               *)
(***************************************************************************)
BulkAttempt(ok) ==
    /\ cyclePc = "bulk"
    /\ bulkAttempt' = bulkAttempt + 1
    /\ IF ok
          THEN /\ flights_api_fetch' = "list"
               /\ cyclePc' = "filter"
               /\ bulkFails' = bulkFails
          ELSE /\ bulkFails' = bulkFails + 1
               /\ IF BulkGiveUp(bulkAttempt + 1)
                     THEN flights_api_fetch' = "None" /\ cyclePc' = "filter"
                     ELSE flights_api_fetch' = flights_api_fetch /\ cyclePc' = cyclePc
    /\ UNCHANGED <<run_detailed_api, last_fetch_timestamp_details, flights_with_details, max_concurrent_requests,
                   flights, pc, attempt, fails, backoff, semaphore, waiters,
                   results, completed, yielded, callerPc, stored>>

(***************************************************************************)
(* fetch_api_flights, lines 645-668: the filters iterate flights_api_fetch *)
(* (a TypeError when it is None, which leaves the generator and the        *)
(* caller's asyncio.run), then the semaphore and the tasks are created.    *)
(***************************************************************************)
CreateTasks ==
    /\ cyclePc = "filter"
    /\ flights_api_fetch = "list"
    /\ flights' = FlightIds(FilterFlights(BulkResult, origin_radius_km))
    /\ semaphore' = max_concurrent_requests
    /\ pc' = [a \in BulkIds |->
                IF \E i \in 1..Len(flights') : flights'[i] = a THEN "created" ELSE "none"]
    /\ cyclePc' = "iterating"
    /\ UNCHANGED <<run_detailed_api, last_fetch_timestamp_details, flights_with_details, max_concurrent_requests,
                   bulkAttempt, bulkFails, flights_api_fetch, attempt, fails,
                   backoff, waiters, results, completed, yielded, callerPc, stored>>

FilterRaises ==
    /\ cyclePc = "filter"
    /\ flights_api_fetch = "None"
    /\ cyclePc' = "raised"
    /\ callerPc' = "exception"
    /\ UNCHANGED <<run_detailed_api, last_fetch_timestamp_details, flights_with_details, max_concurrent_requests,
                   bulkAttempt, bulkFails, flights_api_fetch, flights, pc, attempt,
                   fails, backoff, semaphore, waiters, results, completed, yielded,
                   stored>>

(***************************************************************************)
(* The task of aircraft a returns: its record is kept by the task and the  *)
(* task joins the completion queue of as_completed.                        *)
(***************************************************************************)
Finish(a, flight_details, pcNow) ==
    /\ results' = [results EXCEPT ![a] = ProcessResult(a, flight_details)]
    /\ completed' = Append(completed, a)
    /\ pc' = [pcNow EXCEPT ![a] = "done"]

(***************************************************************************)
(* Semaphore.release on leaving "async with semaphore": the slot goes to   *)
(* the first waiter, or back to the counter.                               *)
(***************************************************************************)
\* mutant: release never wakes a waiter
ReleaseWakes_Never == FALSE

\* Semaphore._wake_up_next: there is a waiter to hand the slot to
ReleaseWakes == waiters # <<>>

PcAfterRelease ==
    IF ReleaseWakes THEN [pc EXCEPT ![Head(waiters)] = "admitted"] ELSE pc

\* mutant: a slot that no waiter takes is given back twice
Release_Twice ==
    /\ waiters' = IF ReleaseWakes THEN Tail(waiters) ELSE waiters
    /\ semaphore' = IF ReleaseWakes THEN semaphore ELSE semaphore + 2

Release ==
    /\ waiters' = IF ReleaseWakes THEN Tail(waiters) ELSE waiters
    /\ semaphore' = IF ReleaseWakes THEN semaphore ELSE semaphore + 1

(***************************************************************************)
(* _process_flight up to its first suspension. The event loop runs the     *)
(* first step of the tasks in the order create_task scheduled them.        *)
(***************************************************************************)
StartTask(a) ==
    /\ cyclePc = "iterating"
    /\ pc[a] = "created"
    /\ \A b \in TaskIds : b < a => pc[b] # "created"
    /\ IF NeedsDetail(a)
          THEN IF CanAcquire
                  THEN /\ semaphore' = semaphore - 1
                       /\ pc' = [pc EXCEPT ![a] = "fetching"]
                       /\ attempt' = [attempt EXCEPT ![a] = 1]
                       /\ UNCHANGED <<waiters, results, completed>>
                  ELSE /\ waiters' = Append(waiters, a)
                       /\ pc' = [pc EXCEPT ![a] = "waiting"]
                       /\ UNCHANGED <<semaphore, attempt, results, completed>>
          ELSE /\ Finish(a, None, pc)
               /\ UNCHANGED <<semaphore, waiters, attempt>>
    /\ UNCHANGED <<run_detailed_api, last_fetch_timestamp_details, flights_with_details, max_concurrent_requests,
                   cyclePc, bulkAttempt, bulkFails, flights_api_fetch, flights,
                   fails, backoff, yielded, callerPc, stored>>

\* a waiter woken by release resumes and enters _fetch_flight_details
ResumeAdmitted(a) ==
    /\ pc[a] = "admitted"
    /\ pc' = [pc EXCEPT ![a] = "fetching"]
    /\ attempt' = [attempt EXCEPT ![a] = 1]
    /\ UNCHANGED <<run_detailed_api, last_fetch_timestamp_details, flights_with_details, max_concurrent_requests,
                   cyclePc, bulkAttempt, bulkFails, flights_api_fetch, flights,
                   fails, backoff, semaphore, waiters, results, completed,
                   yielded, callerPc, stored>>

\* the executor call returns: return flight_details
AttemptReturns(a) ==
    /\ pc[a] = "fetching"
    /\ Release
    /\ Finish(a, FetchResponse(a), PcAfterRelease)
    /\ UNCHANGED <<run_detailed_api, last_fetch_timestamp_details, flights_with_details, max_concurrent_requests,
                   cyclePc, bulkAttempt, bulkFails, flights_api_fetch, flights,
                   attempt, fails, backoff, yielded, callerPc, stored>>

\* the executor call raises: give up on the last attempt, else back off
AttemptRaises(a) ==
    /\ pc[a] = "fetching"
    /\ TotalFails < MaxFailures
    /\ fails' = [fails EXCEPT ![a] = @ + 1]
    /\ IF IsLastAttempt(attempt[a])
          THEN /\ Release
               /\ Finish(a, None, PcAfterRelease)
               /\ UNCHANGED backoff
          ELSE /\ backoff' = [backoff EXCEPT ![a] = @ + wait_time(attempt[a])]
               /\ pc' = [pc EXCEPT ![a] = "sleeping"]
               /\ UNCHANGED <<semaphore, waiters, results, completed>>
    /\ UNCHANGED <<run_detailed_api, last_fetch_timestamp_details, flights_with_details, max_concurrent_requests,
                   cyclePc, bulkAttempt, bulkFails, flights_api_fetch, flights,
                   attempt, yielded, callerPc, stored>>

\* asyncio.sleep(wait_time) is over: next iteration of the retry loop
SleepEnds(a) ==
    /\ pc[a] = "sleeping"
    /\ attempt' = [attempt EXCEPT ![a] = @ + 1]
    /\ pc' = [pc EXCEPT ![a] = "fetching"]
    /\ UNCHANGED <<run_detailed_api, last_fetch_timestamp_details, flights_with_details, max_concurrent_requests,
                   cyclePc, bulkAttempt, bulkFails, flights_api_fetch, flights,
                   fails, backoff, semaphore, waiters, results, completed,
                   yielded, callerPc, stored>>

(***************************************************************************)
(* for completed_task in asyncio.as_completed(tasks): yield result         *)
(***************************************************************************)
YieldResult ==
    /\ cyclePc = "iterating"
    /\ completed # <<>>
    /\ yielded' = Append(yielded, TaskResult(Head(completed)))
    /\ completed' = Tail(completed)
    /\ UNCHANGED <<run_detailed_api, last_fetch_timestamp_details, flights_with_details, max_concurrent_requests,
                   cyclePc, bulkAttempt, bulkFails, flights_api_fetch, flights, pc,
                   attempt, fails, backoff, semaphore, waiters, results, callerPc,
                   stored>>

\* mutant: the stream may end before every task was awaited
StreamExhausted_Early == TRUE

\* as_completed is exhausted after len(tasks) results
StreamExhausted == Len(yielded) = Len(flights)

EndStream ==
    /\ cyclePc = "iterating"
    /\ StreamExhausted
    /\ cyclePc' = "ended"
    /\ UNCHANGED <<run_detailed_api, last_fetch_timestamp_details, flights_with_details, max_concurrent_requests,
                   bulkAttempt, bulkFails, flights_api_fetch, flights, pc, attempt,
                   fails, backoff, semaphore, waiters, results, completed, yielded,
                   callerPc, stored>>

(***************************************************************************)
(* The caller after asyncio.run returned the list: save_flights_to_db and  *)
(* the rest of the cycle, then the result set is handed over.              *)
(***************************************************************************)
CallerSaves ==
    /\ cyclePc = "ended"
    /\ callerPc = "fetching"
    /\ stored' = {yielded[i].flight_id : i \in 1..Len(yielded)}
    /\ callerPc' = "delivered"
    /\ UNCHANGED <<run_detailed_api, last_fetch_timestamp_details, flights_with_details, max_concurrent_requests,
                   cyclePc, bulkAttempt, bulkFails, flights_api_fetch, flights, pc,
                   attempt, fails, backoff, semaphore, waiters, results, completed,
                   yielded>>

(***************************************************************************)
(* The next cycle of the same program: the auto-refresh of the dashboard   *)
(* calls fetch_flight_data again, which starts fetch_api_flights anew with *)
(* the same options and what the store then holds. The caller reaches it   *)
(* only after asyncio.run returned or raised.                              *)
(***************************************************************************)
NextCycle ==
    /\ callerPc \in {"delivered", "exception"}
    /\ cycle < MaxCycles
    /\ cycle' = cycle + 1
    /\ last_fetch_timestamp_details' \in StoredDetailTimes
    /\ flights_with_details' =
          IF run_detailed_api
             THEN get_flights_with_details_fetched(last_fetch_timestamp_details', CycleStart)
             ELSE {}
    /\ cyclePc' = "bulk"
    /\ bulkAttempt' = 0
    /\ bulkFails' = 0
    /\ flights_api_fetch' = "unset"
    /\ flights' = <<>>
    /\ pc' = [a \in BulkIds |-> "none"]
    /\ attempt' = [a \in BulkIds |-> 0]
    /\ fails' = [a \in BulkIds |-> 0]
    /\ backoff' = [a \in BulkIds |-> 0]
    /\ semaphore' = 0
    /\ waiters' = <<>>
    /\ results' = [a \in BulkIds |-> NoResult]
    /\ completed' = <<>>
    /\ yielded' = <<>>
    /\ callerPc' = "fetching"
    /\ stored' = {}
    /\ UNCHANGED <<run_detailed_api, max_concurrent_requests>>

(***************************************************************************)
(* Store and trail fusion of one aircraft.                                 *)
(*                                                                         *)
(* A trail point is [ts, src]: its timestamp and the fetch path its        *)
(* payload came from. A NULL column and an empty list are both <<>>:       *)
(* the code never stores an empty list (it stores None instead) and reads  *)
(* NULL back as [].                                                        *)
(***************************************************************************)
trail_window_seconds == 6 * 60   \* trail_age_unix_threshold = now - (6 * 60)
trail_keep == 6                  \* [:6]

Min(x, y) == IF x <= y THEN x ELSE y

\* s[:n]
Take(s, n) == SubSeq(s, 1, Min(n, Len(s)))

\* sorted(..., key=ts, reverse=True): stable insertion of p
RECURSIVE InsertDesc(_, _)
InsertDesc(p, s) ==
    IF s = <<>> THEN <<p>>
    ELSE IF Head(s).ts >= p.ts THEN <<Head(s)>> \o InsertDesc(p, Tail(s))
    ELSE <<p>> \o s

RECURSIVE SortAcc(_, _)
SortAcc(s, acc) ==
    IF s = <<>> THEN acc ELSE SortAcc(Tail(s), InsertDesc(Head(s), acc))

\* sorted(points, key=lambda x: x['ts'], reverse=True)
SortDesc(s) == SortAcc(s, <<>>)

\* [p for p in all_trail_points if ts not in seen_ts and not seen_ts.add(ts)]
RECURSIVE UniqueByTs(_, _)
UniqueByTs(points, seen_ts) ==
    IF points = <<>> THEN <<>>
    ELSE IF Head(points).ts \in seen_ts
            THEN UniqueByTs(Tail(points), seen_ts)
            ELSE <<Head(points)>>
                 \o UniqueByTs(Tail(points), seen_ts \cup {Head(points).ts})

\* mutant: no age filter
IsRecent_Always(point, current_unix_time) == TRUE

\* point.get('ts', 0) >= trail_age_unix_threshold
IsRecent(point, current_unix_time) ==
    point.ts >= current_unix_time - trail_window_seconds

\* mutant: the detail trail is appended after deduplication
RecentUniqueTrailPoints_DedupFirst(trail_data, trail_data_details, current_unix_time) ==
    SortDesc(SelectSeq(UniqueByTs(trail_data, {}) \o trail_data_details,
                       LAMBDA p : IsRecent(p, current_unix_time)))

\* prepare_flight_list, lines 1350-1371: recent_unique_trail_points
RecentUniqueTrailPoints(trail_data, trail_data_details, current_unix_time) ==
    SortDesc(SelectSeq(UniqueByTs(trail_data \o trail_data_details, {}),
                       LAMBDA p : IsRecent(p, current_unix_time)))

\* mutant: the stored point of the same timestamp is kept
UpdatedTrailPoints_KeepsDuplicate(new_point, old_points) ==
    IF old_points = <<>>
       THEN <<new_point>>
       ELSE Take(SortDesc(<<new_point>> \o old_points), trail_keep)

\* save_flights_to_db, lines 187-201: the new sample merged with the old
\* points, the old point of the same timestamp dropped, newest first, [:6]
UpdatedTrailPoints(new_point, old_points) ==
    IF old_points = <<>>
       THEN <<new_point>>
       ELSE Take(SortDesc(<<new_point>>
                          \o SelectSeq(old_points, LAMBDA p : p.ts # new_point.ts)),
                 trail_keep)

\* timestamps the source can report at the current time
SampleTimes == {t \in {now - k * TickSeconds : k \in 0..MaxStaleTicks} : t >= 0}

BasicPoint(t) == [ts |-> t, src |-> "basic"]
DetailPoint(t) == [ts |-> t, src |-> "detail"]

\* the samples of a set of timestamps, most recent first
RECURSIVE NewestFirst(_)
NewestFirst(T) ==
    IF T = {} THEN <<>>
    ELSE LET m == CHOOSE t \in T : \A u \in T : u <= t
         IN <<DetailPoint(m)>> \o NewestFirst(T \ {m})

\* flight_details.get('trail', []): the source lists the recent samples of
\* the aircraft most recent first ("the first (most recent) 6 trails")
DetailTrails ==
    {NewestFirst(T) : T \in {U \in SUBSET SampleTimes : Cardinality(U) <= MaxDetailLen}}

FusionInit ==
    /\ now = 0
    /\ db_trail_data = <<>>
    /\ db_trail_data_details = <<>>
    /\ latest_trail_data = <<>>
    /\ preparedAt = 0
    /\ prepareStatus = "none"

FetchIdle ==
    /\ run_detailed_api = FALSE
    /\ last_fetch_timestamp_details = [a \in BulkIds |-> None]
    /\ flights_with_details = {}
    /\ max_concurrent_requests = 1
    /\ cyclePc = "idle"
    /\ bulkAttempt = 0
    /\ bulkFails = 0
    /\ flights_api_fetch = "unset"
    /\ flights = <<>>
    /\ pc = [a \in BulkIds |-> "none"]
    /\ attempt = [a \in BulkIds |-> 0]
    /\ fails = [a \in BulkIds |-> 0]
    /\ backoff = [a \in BulkIds |-> 0]
    /\ semaphore = 0
    /\ waiters = <<>>
    /\ results = [a \in BulkIds |-> NoResult]
    /\ completed = <<>>
    /\ yielded = <<>>
    /\ callerPc = "fetching"
    /\ stored = {}

\* The cycle is over and time passes; the prepared list of the cycle is
\* transient and is not kept for the next one.
Tick ==
    /\ now < MaxTicks * TickSeconds
    /\ now' = now + TickSeconds
    /\ latest_trail_data' = <<>>
    /\ preparedAt' = now'
    /\ prepareStatus' = "none"
    /\ UNCHANGED <<db_trail_data, db_trail_data_details>>

(***************************************************************************)
(* prepare_flight_list on the row as loaded after the save: the fused      *)
(* window, or the IndexError of recent_unique_trail_points[0] when it is   *)
(* empty.                                                                  *)
(***************************************************************************)
Prepare(trail_data, trail_data_details) ==
    \E recent \in {RecentUniqueTrailPoints(trail_data, trail_data_details, now)} :
       /\ preparedAt' = now
       /\ IF recent = <<>>
             THEN prepareStatus' = "IndexError" /\ latest_trail_data' = <<>>
             ELSE prepareStatus' = "ok"
                  /\ latest_trail_data' = Take(recent, trail_keep)

(***************************************************************************)
(* A cycle that sees the aircraft without fetching its detail:             *)
(* save_flights_to_db inserts the row or updates it with COALESCE (the     *)
(* detail trail column is not among the keys), then prepare_flight_list.   *)
(***************************************************************************)
CycleBasic(ts) ==
    /\ ts \in SampleTimes
    /\ db_trail_data' = UpdatedTrailPoints(BasicPoint(ts), db_trail_data)
    /\ db_trail_data_details' = db_trail_data_details
    /\ Prepare(db_trail_data', db_trail_data_details')
    /\ UNCHANGED now

(***************************************************************************)
(* A cycle whose detail fetch succeeded: INSERT OR REPLACE writes the      *)
(* merged trail and the detail trail (NULL when the list is empty).        *)
(***************************************************************************)
CycleDetailed(ts, trail_list) ==
    /\ ts \in SampleTimes
    /\ db_trail_data' = UpdatedTrailPoints(BasicPoint(ts), db_trail_data)
    /\ db_trail_data_details' = Take(trail_list, trail_keep)
    /\ Prepare(db_trail_data', db_trail_data_details')
    /\ UNCHANGED now

FusionNext ==
    \/ Tick
    \/ \E ts \in SampleTimes : CycleBasic(ts)
    \/ \E ts \in SampleTimes : \E trail_list \in DetailTrails :
          CycleDetailed(ts, trail_list)

(***************************************************************************)
(* Geometry, units and the flyby score.                                    *)
(*                                                                         *)
(* A position is given relative to the origin: dist10 is its great-circle  *)
(* distance from the origin in tenths of a kilometre and bearing is what   *)
(* calculate_bearing(position, origin) returns for it, in degrees. At the  *)
(* origin itself both arguments of atan2 are 0 and the bearing is 0.       *)
(* Headings and bearings are multiples of 30 degrees, sines are in         *)
(* thousandths. The factors of the score are floats in the code; here they *)
(* are fixed-point numbers in units of 1/FactorScale and the score is in   *)
(* units of 1/(100 * FactorScale), every division rounding down.           *)
(* A field that holds a number or the string "-" is <<x>> or <<>>.         *)
(***************************************************************************)
FactorScale == 10000

MonitoringRadii == {50, 100, 150, 200}   \* load_and_validate_config
flyby_radius_km == 10                    \* flyby_radius_km = 10
max_average_change == 10                 \* max_average_change=10

\* math.sin of a multiple of 30 degrees, in thousandths
SinTable == <<0, 500, 866, 1000, 866, 500, 0, -500, -866, -1000, -866, -500>>
Sin1000(deg) == SinTable[((deg % 360) \div 30) + 1]

\* bearing_difference of is_plane_heading_towards_origin, normalised to [0, 180]
bearing_difference(position, heading) ==
    Min(Abs(position.bearing - heading), 360 - Abs(position.bearing - heading))

\* is_plane_heading_towards_origin(plane_loc, heading, origin_loc, 90)
is_plane_heading_towards_origin(position, heading) ==
    bearing_difference(position, heading) <= 90

\* abs(asin(sin(delta13) * sin(theta13 - theta12)) * R), in units of
\* 1/10000 km. Within the few hundred km of the monitored region the
\* sphere is flat to 3 parts in 10000: asin(sin(d/R) * s) * R = d * s.
cross_track_distance(position, heading) ==
    Abs(position.dist10 * Sin1000(position.bearing - heading))

\* will_plane_pass_within_radius(plane_loc, heading, origin_loc, radius_km)
will_plane_pass_within_radius(position, heading, radius_km) ==
    cross_track_distance(position, heading) <= radius_km * 10000

\* get_flyby_info: the sentinel when the rounded distance is 0, else the
\* formatted closest approach
get_flyby_info(position, heading) ==
    IF calculate_distance(position) = 0 THEN "0 km N/A" ELSE "D km DIR (B)"

\* mutant: no clamping
Clamp_Off(x, lo, hi) == x

\* max(lo, min(hi, x))
Clamp(x, lo, hi) == Max(lo, Min(hi, x))

\* exp(total_trails - i) for i = 0, 1, ... relative to the first, in
\* thousandths: 1, e^-1, e^-2, e^-3, e^-4
weights_exp == <<1000, 368, 135, 50, 18>>

\* mutant: a missing heading counts as a heading
BothHeadings_Always(trails, i) == TRUE

\* if hd1 is not None and hd2 is not None
BothHeadings(trails, i) == trails[i].form # "hd=None" /\ trails[i + 1].form # "hd=None"

\* abs(hd1 - hd2) raises TypeError when a heading is a string
HeadingChangeRaises(trails) ==
    \E i \in 1..(Len(trails) - 1) :
       /\ BothHeadings(trails, i)
       /\ "hd=str" \in {trails[i].form, trails[i + 1].form}

\* diff = abs(hd1 - hd2); diff = min(diff, 360 - diff)
heading_change(trails, i) ==
    Min(Abs(trails[i].hd - trails[i + 1].hd), 360 - Abs(trails[i].hd - trails[i + 1].hd))

\* sum(change * weight for change, weight in zip(changes, weights_exp))
RECURSIVE weighted_sum_exp(_, _)
weighted_sum_exp(trails, i) ==
    IF i >= Len(trails) THEN 0
    ELSE (IF BothHeadings(trails, i) THEN heading_change(trails, i) * weights_exp[i] ELSE 0)
         + weighted_sum_exp(trails, i + 1)

\* sum(weights_exp)
RECURSIVE total_weight_exp(_, _)
total_weight_exp(trails, i) ==
    IF i >= Len(trails) THEN 0
    ELSE (IF BothHeadings(trails, i) THEN weights_exp[i] ELSE 0)
         + total_weight_exp(trails, i + 1)

\* calculate_straight_heading_chance(trails, max_average_change): the
\* weighted average change in thousandths of a degree, then
\* max(0, min(1, 1 - avg / max_average_change))
calculate_straight_heading_chance(trails) ==
    IF total_weight_exp(trails, 1) = 0 THEN 0    \* if not changes: return 0
    ELSE LET weighted_avg_change_exp ==
                 (weighted_sum_exp(trails, 1) * 1000) \div total_weight_exp(trails, 1)
         IN Clamp(FactorScale
                    - (weighted_avg_change_exp * FactorScale) \div (1000 * max_average_change),
                  0, FactorScale)

\* mutant: proximity and speed change places
WeightedSum_Swapped(proximity_factor, straight_heading_chance, speed_factor) ==
    15 * proximity_factor + 25 * straight_heading_chance + 60 * speed_factor

\* proximity * 0.6 + heading * 0.25 + speed * 0.15, in units of
\* 1/(100 * FactorScale)
WeightedSum(proximity_factor, straight_heading_chance, speed_factor) ==
    60 * proximity_factor + 25 * straight_heading_chance + 15 * speed_factor

\* mutant: the inner radius itself is outside
WithinFlybyRadius_Strict(distance_to_origin, radius_km) == distance_to_origin < radius_km

\* if distance_to_origin <= flyby_radius_km
WithinFlybyRadius(distance_to_origin, radius_km) == distance_to_origin <= radius_km

\* calculate_flyby_chance(trails, distance_to_origin, origin_radius_km,
\*                        flyby_radius_km, speed_kmh, max_average_change=10)
calculate_flyby_chance(trails, distance_to_origin, radius_km, inner_km, speed_kmh) ==
    IF WithinFlybyRadius(distance_to_origin, inner_km)
       THEN [flyby_chance |-> 100 * FactorScale,
             proximity_factor |-> <<>>,
             straight_heading_chance |-> <<>>,
             speed_factor |-> <<>>]
       ELSE LET proximity_factor ==
                    Clamp(FactorScale - ((distance_to_origin - inner_km) * FactorScale)
                                            \div (radius_km - inner_km),
                          FactorScale \div 10, FactorScale)
                default_min_heading_chance == (3 * FactorScale) \div 10
                straight_heading_chance ==
                    Clamp(IF Len(trails) > 1
                             THEN calculate_straight_heading_chance(trails)
                             ELSE default_min_heading_chance,
                          default_min_heading_chance, FactorScale)
                speed_factor ==
                    Clamp(((speed_kmh - 200) * FactorScale) \div (700 - 200),
                          FactorScale \div 10, FactorScale)
            IN [flyby_chance |->
                    Clamp(WeightedSum(proximity_factor, straight_heading_chance,
                                      speed_factor),
                          0, 100 * FactorScale),
                proximity_factor |-> <<proximity_factor>>,
                straight_heading_chance |-> <<straight_heading_chance>>,
                speed_factor |-> <<speed_factor>>]

\* mutant: the hours are added as if they were seconds
EtaSeconds_Hours(timestamp, distance_km, speed_kmph) ==
    timestamp + distance_km \div speed_kmph

\* (timestamp + timedelta(hours=distance_km / speed_kmph)).replace(microsecond=0)
EtaSeconds(timestamp, distance_km, speed_kmph) ==
    timestamp + (3600 * distance_km) \div speed_kmph

\* mutant: one of the two tests is enough
PassesGate_Either(is_heading, will_pass) == is_heading \/ will_pass

\* if is_heading and will_pass
PassesGate(is_heading, will_pass) == is_heading /\ will_pass

(***************************************************************************)
(* _process_flyby_data on the record prepare_flight_list built. The        *)
(* record's dest_distance_km is calculate_distance(plane_loc,              *)
(* destination_airport_loc) when destination_airport_coords parses, and    *)
(* prepare_flight_list always provides the speed, the distance and the     *)
(* timestamp. A heading that is None skips the whole computation; any      *)
(* exception inside the try block (float() of a heading that is no number, *)
(* abs() of the difference of a string) resets the four prediction fields  *)
(* to "-" and leaves the flags as they were when it was raised.            *)
(***************************************************************************)
\* mutant: as close to the airport counts as closer
CloserToAirport_OrEqual(plane_distance_to_dest_airport, plane_distance_to_origin) ==
    plane_distance_to_dest_airport <= plane_distance_to_origin

\* plane_distance_to_dest_airport < plane_distance_to_origin
CloserToAirport(plane_distance_to_dest_airport, plane_distance_to_origin) ==
    plane_distance_to_dest_airport < plane_distance_to_origin

process_flyby_data(prepared_flight_data, radius_km, inner_km, ignore) ==
    LET plane_loc == prepared_flight_data.location_coords
        plane_heading == prepared_flight_data.heading
        heading_form == prepared_flight_data.latest_trail_data[1].form
        plane_speed_kmph == prepared_flight_data.speed
        distance_km == prepared_flight_data.distance_from_origin
        relevant_trails == prepared_flight_data.latest_trail_data
        entered == heading_form \notin {"hd=None", "hd=str"}
        is_heading == entered /\ is_plane_heading_towards_origin(plane_loc, plane_heading)
        will_pass == entered /\ will_plane_pass_within_radius(plane_loc, plane_heading, inner_km)
        gate == PassesGate(is_heading, will_pass)
        is_closer_to_airport_than_origin ==
            /\ gate
            /\ prepared_flight_data.destination_airport_coords = "numeric"
            /\ CloserToAirport(prepared_flight_data.dest_distance_km[1], distance_km)
        reached == gate /\ (~is_closer_to_airport_than_origin \/ ignore)
        raised == \/ heading_form = "hd=str"
                  \/ /\ reached
                     /\ ~WithinFlybyRadius(distance_km, inner_km)
                     /\ Len(relevant_trails) > 1
                     /\ HeadingChangeRaises(relevant_trails)
        scored == reached /\ ~raised
        chance == calculate_flyby_chance(relevant_trails, distance_km, radius_km,
                                         inner_km, plane_speed_kmph)
    IN [flyby_info |-> IF scored THEN get_flyby_info(plane_loc, plane_heading) ELSE "-",
        flyby_chance |-> IF scored THEN <<chance.flyby_chance>> ELSE <<>>,
        proximity_factor |-> IF scored THEN chance.proximity_factor ELSE <<>>,
        straight_heading_chance |-> IF scored THEN chance.straight_heading_chance ELSE <<>>,
        speed_factor |-> IF scored THEN chance.speed_factor ELSE <<>>,
        flyby_eta |-> IF scored /\ plane_speed_kmph > 0
                         THEN <<EtaSeconds(prepared_flight_data.timestamp, distance_km,
                                           plane_speed_kmph)>>
                         ELSE <<>>,
        is_closer_to_airport_than_origin |-> is_closer_to_airport_than_origin,
        is_heading_towards_origin |-> is_heading,
        will_pass_within_radius |-> will_pass]

(***************************************************************************)
(* prepare_flight_list: the body of the loop for one row, given its fused  *)
(* window, and the loop. recent_unique_trail_points[0] raises IndexError   *)
(* on an empty window and calculate_distance (haversine) raises TypeError  *)
(* on a latitude or longitude that is no number; nothing in                *)
(* prepare_flight_list catches either.                                     *)
(***************************************************************************)
PreparedFlightData(row, recent_unique_trail_points, radius_km, inner_km, ignore) ==
    LET last_known_position == recent_unique_trail_points[1]
        additional_flight_data ==
            [callsign |-> row.callsign,
             destination_airport_coords |-> row.destination_airport_coords,
             dest_distance_km |-> row.dest_distance_km,
             speed |-> knots_to_kmph(last_known_position.spd),
             heading |-> last_known_position.hd,
             location_coords |-> last_known_position.pos,
             timestamp |-> last_known_position.ts,
             distance_from_origin |-> calculate_distance(last_known_position.pos),
             latest_trail_data |-> Take(recent_unique_trail_points, trail_keep)]
        flyby == process_flyby_data(additional_flight_data, radius_km, inner_km, ignore)
    IN [callsign |-> additional_flight_data.callsign,
        destination_airport_coords |-> additional_flight_data.destination_airport_coords,
        dest_distance_km |-> additional_flight_data.dest_distance_km,
        speed |-> additional_flight_data.speed,
        heading |-> additional_flight_data.heading,
        location_coords |-> additional_flight_data.location_coords,
        timestamp |-> additional_flight_data.timestamp,
        distance_from_origin |-> additional_flight_data.distance_from_origin,
        latest_trail_data |-> additional_flight_data.latest_trail_data,
        flyby_chance |-> flyby.flyby_chance,
        proximity_factor |-> flyby.proximity_factor,
        straight_heading_chance |-> flyby.straight_heading_chance,
        speed_factor |-> flyby.speed_factor,
        flyby_info |-> flyby.flyby_info,
        flyby_eta |-> flyby.flyby_eta,
        is_closer_to_airport_than_origin |-> flyby.is_closer_to_airport_than_origin,
        is_heading_towards_origin |-> flyby.is_heading_towards_origin,
        will_pass_within_radius |-> flyby.will_pass_within_radius]

RECURSIVE prepare_flight_list(_, _, _, _, _, _)
prepare_flight_list(rows, current_unix_time, radius_km, inner_km, ignore, acc) ==
    IF rows = <<>> THEN [status |-> "returned", prepared_flights |-> acc]
    ELSE LET recent == RecentUniqueTrailPoints(Head(rows).trail_data,
                                               Head(rows).trail_data_details,
                                               current_unix_time)
         IN IF recent = <<>>
               THEN [status |-> "IndexError", prepared_flights |-> <<>>]
            ELSE IF recent[1].form = "pos=str"
               THEN [status |-> "TypeError", prepared_flights |-> <<>>]
               ELSE prepare_flight_list(Tail(rows), current_unix_time, radius_km,
                                        inner_km, ignore,
                                        Append(acc, PreparedFlightData(Head(rows), recent,
                                                                       radius_km, inner_km,
                                                                       ignore)))

(***************************************************************************)
(* The rows a call of prepare_flight_list is tried on: one row of every    *)
(* kind, at every place of a list whose other rows are an aircraft with a  *)
(* fresh trail on its way to the origin.                                   *)
(***************************************************************************)
Distances10 == {0, 4, 100, 105, 150, 1500, 2500}
Bearings == {0, 90}
Positions ==
    {[dist10 |-> 0, bearing |-> 0]}
    \cup {[dist10 |-> d, bearing |-> b] : d \in Distances10 \ {0}, b \in Bearings}
Headings == {0, 30, 90, 180, 270}
SpeedsKnots == {0, 243, 400}
DestinationDistances == {<<>>, <<5>>, <<150>>, <<300>>}
TrailShapes == {"single", "steady", "turning", "erratic", "stale", "boundary", "none"}

\* trails with a heading that is missing, exactly max_average_change apart
\* (across north for heading 0) or no number, and with a latitude that is
\* no number
OddTrailShapes == {"gaps", "tenturn", "badheading", "badoldheading", "badposition"}

\* a sample: form says whether lat, lng and hd are numbers ("numeric"),
\* hd is None, hd is a string that is no number or lat is such a string
TrailPoint(t, h, p, v) == [ts |-> t, hd |-> h, pos |-> p, spd |-> v, form |-> "numeric"]

OddPoint(t, h, p, v, form) == [TrailPoint(t, h, p, v) EXCEPT !.form = form]

\* trail_data and trail_data_details of a row whose newest sample is
\* (h, p, v), by the shape of its history
TrailsOf(shape, t, h, p, v) ==
    CASE shape = "single" ->
           [trail_data |-> <<TrailPoint(t, h, p, v)>>, trail_data_details |-> <<>>]
      [] shape = "steady" ->
           [trail_data |-> <<TrailPoint(t, h, p, v), TrailPoint(t - TickSeconds, h, p, v)>>,
            trail_data_details |-> <<>>]
      [] shape = "turning" ->
           [trail_data |-> <<TrailPoint(t, h, p, v)>>,
            trail_data_details |->
                <<TrailPoint(t, h, p, v),
                  TrailPoint(t - TickSeconds, (h + 356) % 360, p, v),
                  TrailPoint(t - 2 * TickSeconds, (h + 356) % 360, p, v)>>]
      [] shape = "erratic" ->
           [trail_data |-> <<TrailPoint(t, h, p, v),
                             TrailPoint(t - TickSeconds, (h + 20) % 360, p, v)>>,
            trail_data_details |-> <<>>]
      [] shape = "stale" ->
           [trail_data |-> <<TrailPoint(t - trail_window_seconds - TickSeconds, h, p, v)>>,
            trail_data_details |-> <<>>]
      [] shape = "boundary" ->
           [trail_data |-> <<TrailPoint(t - trail_window_seconds, h, p, v)>>,
            trail_data_details |->
                <<TrailPoint(t - trail_window_seconds - TickSeconds, (h + 20) % 360, p, v)>>]
      [] shape = "gaps" ->
           [trail_data |-> <<TrailPoint(t, h, p, v),
                             OddPoint(t - TickSeconds, 0, p, v, "hd=None"),
                             TrailPoint(t - 2 * TickSeconds, (h + 20) % 360, p, v)>>,
            trail_data_details |-> <<>>]
      [] shape = "tenturn" ->
           [trail_data |-> <<TrailPoint(t, h, p, v),
                             TrailPoint(t - TickSeconds,
                                        (h + 360 - max_average_change) % 360, p, v)>>,
            trail_data_details |-> <<>>]
      [] shape = "badheading" ->
           [trail_data |-> <<OddPoint(t, 0, p, v, "hd=str")>>,
            trail_data_details |-> <<>>]
      [] shape = "badoldheading" ->
           [trail_data |-> <<TrailPoint(t, h, p, v),
                             OddPoint(t - TickSeconds, 0, p, v, "hd=str")>>,
            trail_data_details |-> <<>>]
      [] shape = "badposition" ->
           [trail_data |-> <<OddPoint(t, h, p, v, "pos=str")>>,
            trail_data_details |-> <<>>]
      [] OTHER ->
           [trail_data |-> <<>>, trail_data_details |-> <<>>]

\* a row of the table as load_flights_from_db returns it;
\* destination_airport_coords is None or holds numbers
Row(callsign, shape, t, h, p, v, dest) ==
    [callsign |-> callsign,
     trail_data |-> TrailsOf(shape, t, h, p, v).trail_data,
     trail_data_details |-> TrailsOf(shape, t, h, p, v).trail_data_details,
     destination_airport_coords |-> IF dest = <<>> THEN "None" ELSE "numeric",
     dest_distance_km |-> dest]

\* the same row with destination_airport_coords that float() rejects
RowBadDestination(callsign, shape, t, h, p, v) ==
    [Row(callsign, shape, t, h, p, v, <<>>) EXCEPT !.destination_airport_coords = "str"]

ApproachingRow(callsign, t) ==
    Row(callsign, "steady", t, 0, [dist10 |-> 1500, bearing |-> 0], 243, <<>>)

VariedRows ==
    {Row(0, shape, CycleStart, h, p, v, dest) :
        shape \in TrailShapes, h \in Headings, p \in Positions, v \in SpeedsKnots,
        dest \in DestinationDistances}
    \cup {Row(0, shape, CycleStart, h, p, 243, <<>>) :
             shape \in OddTrailShapes, h \in Headings, p \in Positions}
    \cup {RowBadDestination(0, "single", CycleStart, h, p, 243) :
             h \in Headings, p \in Positions}

PrepareInputs ==
    {[i \in 1..PrepListLen |->
         IF i = k THEN [row EXCEPT !.callsign = i] ELSE ApproachingRow(i, CycleStart)] :
        k \in 1..PrepListLen, row \in VariedRows}

ConfigInit ==
    /\ origin_radius_km = 200
    /\ ignore_airport_proximity = FALSE

PrepareIdle ==
    /\ flight_active_list_db_load = <<>>
    /\ prepared_flights = <<>>
    /\ preparePc = "idle"

PrepareInit ==
    /\ origin_radius_km \in MonitoringRadii
    /\ ignore_airport_proximity \in BOOLEAN
    /\ flight_active_list_db_load \in PrepareInputs
    /\ prepared_flights = <<>>
    /\ preparePc = "called"

\* flight_active_list_prepared = Utils.prepare_flight_list(...)
PrepareFlightList ==
    /\ preparePc = "called"
    /\ \E result \in {prepare_flight_list(flight_active_list_db_load, now,
                                          origin_radius_km, flyby_radius_km,
                                          ignore_airport_proximity, <<>>)} :
          /\ preparePc' = result.status
          /\ prepared_flights' = result.prepared_flights
    /\ UNCHANGED flight_active_list_db_load

(***************************************************************************)
(* _process_flight, lines 698-773: the record built from the basic         *)
(* snapshot, the record built from the detail response and their merge.    *)
(* An attribute of the snapshot is "" or a value; Python's None is the     *)
(* string "None".                                                          *)
(***************************************************************************)
SharedFields == {"callsign", "tail_no", "flight_no", "aircraft_icao", "airline_icao",
                 "origin_airport_iata", "destination_airport_iata"}
DetailOnlyFields == {"aircraft", "airline", "origin_city", "destination_city",
                     "destination_airport_coords", "trail_data_details"}

\* 'callsign': flight.callsign or None, ...
FlightDataBasic(snapshot) ==
    [k \in SharedFields |-> IF snapshot[k] = "" THEN "None" ELSE snapshot[k]]

\* flight_data_detailed: what get_nested found in the response
FlightDataDetailed(response) == response.found

\* mutant: a value of the detail record replaces the value of the snapshot
MergeUpdate_PreferDetail(basic, detailed) ==
    [k \in DOMAIN basic \cup DOMAIN detailed |->
        IF k \notin DOMAIN basic \/ (k \in DOMAIN detailed /\ detailed[k] # "None")
           THEN detailed[k] ELSE basic[k]]

\* flight_data.update({k: v for k, v in flight_data_detailed.items()
\*                     if k not in flight_data or flight_data[k] is None})
MergeUpdate(basic, detailed) ==
    [k \in DOMAIN basic \cup DOMAIN detailed |->
        IF k \notin DOMAIN basic \/ basic[k] = "None"
           THEN detailed[k] ELSE basic[k]]

\* the flight_data _process_flight returns
ProcessFlightData(snapshot, response) ==
    IF response.ok
       THEN [fields |-> MergeUpdate(FlightDataBasic(snapshot), FlightDataDetailed(response)),
             api_details_fetch |-> TRUE]
       ELSE [fields |-> FlightDataBasic(snapshot), api_details_fetch |-> FALSE]

Snapshots == [SharedFields -> {"", "basic"}]

\* the detail responses: every choice of the shared fields the response
\* has a value for, with or without the fields only it can have, and the
\* fetch that gave nothing
DetailResponses ==
    {[ok |-> TRUE,
      found |-> [k \in SharedFields \cup DetailOnlyFields |->
                   IF k \in has \/ (k \in DetailOnlyFields /\ extra)
                      THEN "detail" ELSE "None"]] :
        has \in SUBSET SharedFields, extra \in BOOLEAN}
    \cup {[ok |-> FALSE,
            found |-> [k \in SharedFields \cup DetailOnlyFields |-> "None"]]}

MergeIdle ==
    /\ flight_obj = <<>>
    /\ details_obj = <<>>
    /\ flight_data = <<>>
    /\ mergePc = "idle"

MergeInit ==
    /\ flight_obj \in Snapshots
    /\ details_obj \in DetailResponses
    /\ flight_data = [fields |-> FlightDataBasic(flight_obj), api_details_fetch |-> FALSE]
    /\ mergePc = "called"

\* if flight_details: ... flight_data.update(...); return flight_data
ProcessFlightMerge ==
    /\ mergePc = "called"
    /\ flight_data' = ProcessFlightData(flight_obj, details_obj)
    /\ mergePc' = "returned"
    /\ UNCHANGED <<flight_obj, details_obj>>

(***************************************************************************)
(* The store over many cycles: cleanup_old_flights,                        *)
(* get_flights_with_details_fetched and save_flights_to_db on the table    *)
(* flights. Timestamps are whole seconds of datetime.now(), as the stored  *)
(* "%Y-%m-%d %H:%M:%S" strings are; SQLite compares the strings, which     *)
(* orders them as the times. A column is "NULL" or a value, a key of a     *)
(* flight dict is "absent", "None" or a value, a timestamp column is None  *)
(* when NULL. trail_data is followed in SpecFusion and is left out here.   *)
(***************************************************************************)
StoreIds == {1, 2}

\* seconds between two runs: a second, a second less than max_age_minutes
\* and the rest of days_threshold days after that
RunIntervals ==
    {1, max_age_minutes * 60 - 1,
     days_threshold * SecondsPerDay - (max_age_minutes * 60 - 1)}

\* a flight_id that is not in the table
NoRow ==
    [present |-> FALSE, callsign |-> "NULL", destination_airport_coords |-> "NULL",
     trail_data_details |-> "NULL", last_fetch_timestamp |-> None,
     last_fetch_timestamp_details |-> None]

\* column value of a dict key handed to INSERT OR REPLACE
ColumnValue(v) == IF v \in {"absent", "None"} THEN "NULL" ELSE v

\* mutant: the UPDATE assigns every key of the dict, None included
Coalesce_Overwrite(v, column) == IF v = "absent" THEN column ELSE ColumnValue(v)

\* k = COALESCE(?, k) for a key of the dict; a column the dict has no key
\* for is not in the UPDATE
Coalesce(v, column) == IF v \in {"absent", "None"} THEN column ELSE v

\* the flight dicts _process_flight returns for an aircraft: the basic
\* record (lines 699-710), here of an aircraft the bulk query gives no
\* callsign for, or the merged record of a successful detail fetch (line 772)
FlightDicts(id, detail_allowed) ==
    {[flight_id |-> id, api_details_fetch |-> FALSE, callsign |-> "None",
      destination_airport_coords |-> "absent", trail_data_details |-> "absent"]}
    \cup
    IF detail_allowed
       THEN {[flight_id |-> id, api_details_fetch |-> TRUE, callsign |-> "SAS1",
              destination_airport_coords |-> "coords", trail_data_details |-> "trail"]}
       ELSE {}

\* the lists asyncio.run(async_fetch_flight_data()) can return: any of the
\* aircraft, each with its basic or merged record; a detail fetch is
\* attempted only for an id that is not in flights_with_details
RECURSIVE FlightListsFrom(_, _)
FlightListsFrom(id, flights_with_details_fetched) ==
    IF id \notin StoreIds THEN {<<>>}
    ELSE LET rest == FlightListsFrom(id + 1, flights_with_details_fetched)
         IN rest \cup {<<f>> \o r :
                          f \in FlightDicts(id, id \notin flights_with_details_fetched),
                          r \in rest}

\* INSERT OR REPLACE INTO flights (keys) VALUES (values): the row is
\* replaced whole, a column without a key is NULL
InsertOrReplace(flight, current_time) ==
    [present |-> TRUE,
     callsign |-> ColumnValue(flight.callsign),
     destination_airport_coords |-> ColumnValue(flight.destination_airport_coords),
     trail_data_details |-> ColumnValue(flight.trail_data_details),
     last_fetch_timestamp |-> current_time,
     last_fetch_timestamp_details |->
         IF flight.api_details_fetch THEN current_time ELSE None]

\* UPDATE flights SET k=COALESCE(?,k), ... WHERE flight_id=?
UpdateCoalesce(row, flight, current_time) ==
    [row EXCEPT !.callsign = Coalesce(flight.callsign, @),
                !.destination_airport_coords =
                    Coalesce(flight.destination_airport_coords, @),
                !.trail_data_details = Coalesce(flight.trail_data_details, @),
                !.last_fetch_timestamp = current_time]

\* if is_detailed or not existing_data
ReplacesRow(is_detailed, existing_data) == is_detailed \/ ~existing_data

\* the row of flight_id after the write of save_flights_to_db
SavedRow(row, flight, current_time) ==
    IF ReplacesRow(flight.api_details_fetch, row.present)
       THEN InsertOrReplace(flight, current_time)
       ELSE UpdateCoalesce(row, flight, current_time)

\* mutant: a row of exactly days_threshold days is deleted too
OlderThanCutoff_Inclusive(timestamp, cutoff_date) == timestamp <= cutoff_date

\* WHERE last_fetch_timestamp < cutoff_date
OlderThanCutoff(timestamp, cutoff_date) == timestamp < cutoff_date

StoreIdle ==
    /\ wall_clock = 0
    /\ db_flights = [id \in StoreIds |-> NoRow]
    /\ deleted_ids = {}
    /\ existing_flights_with_details = {}
    /\ flight_active_list = <<>>
    /\ storePc = "idle"
    /\ save_index = 0
    /\ saved_count = 0
    /\ written = {}
    /\ failed = {}
    /\ waits = 0

\* a new database, created by the first run of the program
StoreInit ==
    /\ wall_clock = 1
    /\ db_flights = [id \in StoreIds |-> NoRow]
    /\ deleted_ids = {}
    /\ existing_flights_with_details = {}
    /\ flight_active_list = <<>>
    /\ storePc = "start"
    /\ save_index = 0
    /\ saved_count = 0
    /\ written = {}
    /\ failed = {}
    /\ waits = 0

(***************************************************************************)
(* cleanup_old_flights(db_path): the DELETE, or the exception of the       *)
(* store that the function catches (it returns 0 and nothing is deleted).  *)
(***************************************************************************)
CleanupOldFlights(ok) ==
    /\ storePc = "start"
    /\ LET cutoff_date == wall_clock - days_threshold * SecondsPerDay
           old == {id \in StoreIds :
                      /\ db_flights[id].present
                      /\ OlderThanCutoff(db_flights[id].last_fetch_timestamp, cutoff_date)}
       IN IF ok
             THEN /\ db_flights' = [id \in StoreIds |->
                                       IF id \in old THEN NoRow ELSE db_flights[id]]
                  /\ deleted_ids' = old
                  /\ storePc' = "cleaned"
             ELSE /\ UNCHANGED db_flights
                  /\ deleted_ids' = {}
                  /\ storePc' = "cleanup failed"
    /\ UNCHANGED <<wall_clock, existing_flights_with_details, flight_active_list,
                   save_index, saved_count, written, failed, waits>>

(***************************************************************************)
(* existing_flights_with_details = get_flights_with_details_fetched(...)   *)
(* and the fetch of the cycle, whose list is handed to save_flights_to_db. *)
(***************************************************************************)
FetchCycle ==
    /\ storePc \in {"cleaned", "cleanup failed"}
    /\ existing_flights_with_details' =
           get_flights_with_details_fetched(
               [id \in StoreIds |-> db_flights[id].last_fetch_timestamp_details],
               wall_clock)
    /\ flight_active_list' \in FlightListsFrom(1, existing_flights_with_details')
    /\ storePc' = "saving"
    /\ save_index' = 1
    /\ saved_count' = 0
    /\ written' = {}
    /\ failed' = {}
    /\ UNCHANGED <<wall_clock, db_flights, deleted_ids, waits>>

(***************************************************************************)
(* save_flights_to_db: one pass of "for flight in flight_list". The SELECT *)
(* of the stored trail is outside the try block, the write is inside it    *)
(* and its handler returns 0.                                              *)
(***************************************************************************)
SaveFlight(outcome) ==
    /\ storePc = "saving"
    /\ save_index <= Len(flight_active_list)
    /\ LET flight == flight_active_list[save_index]
           flight_id == flight.flight_id
       IN CASE outcome = "select raises" ->
                 /\ storePc' = "raised"
                 /\ failed' = failed \cup {flight_id}
                 /\ UNCHANGED <<db_flights, save_index, saved_count, written>>
            [] outcome = "write raises" ->
                 /\ storePc' = "returned"
                 /\ saved_count' = 0
                 /\ failed' = failed \cup {flight_id}
                 /\ UNCHANGED <<db_flights, save_index, written>>
            [] OTHER ->
                 /\ db_flights' = [db_flights EXCEPT
                                      ![flight_id] = SavedRow(@, flight, wall_clock)]
                 /\ written' = written \cup {flight_id}
                 /\ saved_count' = saved_count + 1
                 /\ save_index' = save_index + 1
                 /\ UNCHANGED <<storePc, failed>>
    /\ UNCHANGED <<wall_clock, deleted_ids, existing_flights_with_details,
                   flight_active_list, waits>>

\* return saved_count
SaveReturns ==
    /\ storePc = "saving"
    /\ save_index > Len(flight_active_list)
    /\ storePc' = "returned"
    /\ UNCHANGED <<wall_clock, db_flights, deleted_ids, existing_flights_with_details,
                   flight_active_list, save_index, saved_count, written, failed, waits>>

\* the cycle is over; the program is run again after d seconds
NextRun(d) ==
    /\ storePc \in {"returned", "raised"}
    /\ waits < MaxWaits
    /\ waits' = waits + 1
    /\ wall_clock' = wall_clock + d
    /\ storePc' = "start"
    /\ flight_active_list' = <<>>
    /\ save_index' = 0
    /\ saved_count' = 0
    /\ written' = {}
    /\ failed' = {}
    /\ deleted_ids' = {}
    /\ existing_flights_with_details' = {}
    /\ UNCHANGED db_flights

StoreNext ==
    \/ \E ok \in BOOLEAN : CleanupOldFlights(ok)
    \/ FetchCycle
    \/ \E outcome \in {"ok", "write raises", "select raises"} : SaveFlight(outcome)
    \/ SaveReturns
    \/ \E d \in RunIntervals : NextRun(d)

(***************************************************************************)
(* bearing_to_compass. The bearing is in half degrees, so that the         *)
(* boundaries of the sectors (22.5, 67.5, ...) are integers; for a         *)
(* multiple of half a degree (bearing + 22.5) / 45 is exact where it is    *)
(* an integer, and int() drops the fraction (towards zero).                *)
(***************************************************************************)
dirs == <<"N", "NE", "E", "SE", "S", "SW", "W", "NW">>

\* int(n / d) for d > 0: the fraction is dropped
IntOfQuotient(n, d) == IF n >= 0 THEN n \div d ELSE 0 - ((0 - n) \div d)

\* ix = int((bearing + 22.5) / 45) % 8; return dirs[ix]
bearing_to_compass(half_degrees) ==
    dirs[(IntOfQuotient(half_degrees + 45, 90) % 8) + 1]

CompassIdle ==
    /\ compass_bearing = 0
    /\ compass_dir = ""
    /\ compassPc = "idle"

CompassInit ==
    /\ compass_bearing \in (0 - MaxHalfDegrees)..MaxHalfDegrees
    /\ compass_dir = ""
    /\ compassPc = "called"

BearingToCompass ==
    /\ compassPc = "called"
    /\ compass_dir' = bearing_to_compass(compass_bearing)
    /\ compassPc' = "returned"
    /\ UNCHANGED compass_bearing

FetchNext ==
    \/ \E ok \in BOOLEAN : BulkAttempt(ok)
    \/ CreateTasks
    \/ FilterRaises
    \/ \E a \in TaskIds : StartTask(a)
    \/ \E a \in TaskIds : ResumeAdmitted(a)
    \/ \E a \in TaskIds : AttemptReturns(a)
    \/ \E a \in TaskIds : AttemptRaises(a)
    \/ \E a \in TaskIds : SleepEnds(a)
    \/ YieldResult
    \/ EndStream
    \/ CallerSaves

Init == FetchInit /\ FusionIdle /\ ConfigInit /\ PrepareIdle /\ MergeIdle
        /\ StoreIdle /\ CompassIdle /\ cycle = 1

Next == FetchNext /\ UNCHANGED <<fusionVars, configVars, prepareVars, mergeVars,
                                 storeVars, compassVars, cycleVars>>

Spec == Init /\ [][Next]_vars

\* The event loop runs every ready step, every sleep ends and every fetch
\* attempt returns or raises.
InitFusion == FetchIdle /\ FusionInit /\ ConfigInit /\ PrepareIdle /\ MergeIdle
              /\ StoreIdle /\ CompassIdle /\ cycle = 1

NextFusion == FusionNext /\ UNCHANGED <<fetchVars, configVars, prepareVars, mergeVars,
                                        storeVars, compassVars, cycleVars>>

SpecFusion == InitFusion /\ [][NextFusion]_vars

InitPrepare == FetchIdle /\ FusionIdle /\ PrepareInit /\ MergeIdle
               /\ StoreIdle /\ CompassIdle /\ cycle = 1

NextPrepare ==
    PrepareFlightList /\ UNCHANGED <<fetchVars, fusionVars, configVars, mergeVars,
                                     storeVars, compassVars, cycleVars>>

SpecPrepare == InitPrepare /\ [][NextPrepare]_vars

InitMerge == FetchIdle /\ FusionIdle /\ ConfigInit /\ PrepareIdle /\ MergeInit
             /\ StoreIdle /\ CompassIdle /\ cycle = 1

NextMerge ==
    ProcessFlightMerge /\ UNCHANGED <<fetchVars, fusionVars, configVars, prepareVars,
                                      storeVars, compassVars, cycleVars>>

SpecMerge == InitMerge /\ [][NextMerge]_vars

InitStore == FetchIdle /\ FusionIdle /\ ConfigInit /\ PrepareIdle /\ MergeIdle
             /\ StoreInit /\ CompassIdle /\ cycle = 1

NextStore == StoreNext /\ UNCHANGED <<fetchVars, fusionVars, configVars, prepareVars,
                                      mergeVars, compassVars, cycleVars>>

SpecStore == InitStore /\ [][NextStore]_vars

InitCompass == FetchIdle /\ FusionIdle /\ ConfigInit /\ PrepareIdle /\ MergeIdle
               /\ StoreIdle /\ CompassInit /\ cycle = 1

NextCompass == BearingToCompass /\ UNCHANGED <<fetchVars, fusionVars, configVars,
                                               prepareVars, mergeVars, storeVars, cycleVars>>

SpecCompass == InitCompass /\ [][NextCompass]_vars

\* several cycles of one program, one after the other
NextCycles ==
    \/ FetchNext /\ UNCHANGED <<fusionVars, configVars, prepareVars, mergeVars,
                                 storeVars, compassVars, cycleVars>>
    \/ NextCycle /\ UNCHANGED <<fusionVars, configVars, prepareVars, mergeVars,
                                 storeVars, compassVars>>

SpecCycles == Init /\ [][NextCycles]_vars

FairSpec == Init /\ [][Next]_vars /\ WF_vars(Next)

(***************************************************************************)
(* Properties of the concurrent fetcher.                                   *)
(***************************************************************************)

\* C1: at no instant are more than K detail fetches in flight (admitted
\* and not yet resolved), K being the concurrency bound of the cycle.
C1_AtMostKInFlight == Cardinality(InFlight) <= max_concurrent_requests

C1_Witness ==
    /\ Cardinality({a \in Aircraft : NeedsDetail(a)}) > max_concurrent_requests
    /\ Cardinality(InFlight) = max_concurrent_requests
    /\ waiters # <<>>

\* C2: once the tasks of a cycle exist, every task eventually resolves,
\* none stays pending or waiting at the gate, and the stream yields one
\* result per task and ends.
C2_AllResolveAndStreamEnds ==
    (cyclePc = "iterating") ~>
        (/\ cyclePc = "ended"
         /\ \A a \in Aircraft : pc[a] = "done"
         /\ waiters = <<>>
         /\ Len(yielded) = NumAircraft)

C2_Witness ==
    /\ cyclePc = "ended"
    /\ Len(yielded) = NumAircraft
    /\ \E a \in Aircraft : fails[a] = max_retries
    /\ \E a \in Aircraft : results[a].api_details_fetch

\* C3: a detail fetch makes at most max_retries attempts; a task that gave
\* up made exactly max_retries attempts and slept only between them
\* (1+2+4+8 seconds); once a task has resolved it makes no further attempt
\* and sleeps no more.
C3_AttemptsBounded ==
    /\ [](\A a \in Aircraft :
            /\ attempt[a] <= max_retries
            /\ (pc[a] = "done" /\ NeedsDetail(a) /\ ~results[a].api_details_fetch)
                  => (attempt[a] = max_retries /\ fails[a] = max_retries
                      /\ backoff[a] = 15)
            /\ (pc[a] = "done" /\ results[a].api_details_fetch)
                  => attempt[a] = fails[a] + 1)
    /\ [][\A a \in Aircraft :
            pc[a] = "done" => /\ pc'[a] = "done"
                              /\ attempt'[a] = attempt[a]
                              /\ fails'[a] = fails[a]
                              /\ backoff'[a] = backoff[a]]_vars

C3_Witness ==
    \E a, b \in Aircraft :
        /\ pc[a] = "done" /\ fails[a] = max_retries
        /\ pc[b] = "done" /\ results[b].api_details_fetch /\ fails[b] = 0

\* C4: no delay precedes attempt 1 and the delay after failed attempt k is
\* 2^(k-1) seconds, so the delay accumulated before attempt k is 0, 1, 3,
\* 7, 15; a fetch that fails twice and then succeeds has slept 3 seconds.
C4_BackoffSchedule ==
    \A a \in Aircraft :
        /\ (pc[a] \in {"fetching", "done"} /\ attempt[a] >= 1)
              => backoff[a] = <<0, 1, 3, 7, 15>>[attempt[a]]
        /\ (pc[a] = "sleeping")
              => backoff[a] = <<0, 1, 3, 7, 15>>[attempt[a]] + <<1, 2, 4, 8>>[attempt[a]]
        /\ (pc[a] = "done" /\ fails[a] = 2 /\ attempt[a] = 3)
              => (results[a].api_details_fetch /\ backoff[a] = 3)

C4_Witness ==
    \E a \in Aircraft :
        /\ pc[a] = "done" /\ fails[a] = 2 /\ attempt[a] = 3
        /\ results[a].api_details_fetch

\* C5: an aircraft whose detail fetch failed on every attempt still has a
\* record with its own basic fields and trail sample, marked
\* api_details_fetch = FALSE; the record is in the results of the cycle and
\* the cycle does not fail.
C5_FailedDetailKeepsBasicRecord ==
    \A a \in Aircraft :
        (pc[a] = "done" /\ fails[a] = max_retries) =>
            /\ results[a] = [flight_id |-> a, basic_of |-> a, trail_of |-> a,
                             detail_of |-> None, api_details_fetch |-> FALSE]
            /\ cyclePc # "raised" /\ callerPc # "exception"
            /\ (cyclePc = "ended" => \E i \in 1..Len(yielded) : yielded[i] = results[a])
            /\ (callerPc = "delivered" => a \in stored)

C5_Witness ==
    /\ callerPc = "delivered"
    /\ \E a \in Aircraft : fails[a] = max_retries

\* C6: every yielded record carries the flight_id, the basic fields, the
\* trail sample and (when merged) the detail of one and the same aircraft,
\* and no aircraft appears in two yielded records, whatever the completion
\* order.
C6_RecordsKeyedByAircraft ==
    /\ \A i \in 1..Len(yielded) :
          /\ yielded[i].flight_id \in Aircraft
          /\ yielded[i].basic_of = yielded[i].flight_id
          /\ yielded[i].trail_of = yielded[i].flight_id
          /\ yielded[i].detail_of \in {None, yielded[i].flight_id}
          /\ yielded[i].api_details_fetch = (yielded[i].detail_of # None)
    /\ \A i, j \in 1..Len(yielded) :
          i # j => yielded[i].flight_id # yielded[j].flight_id

C6_Witness ==
    /\ Len(yielded) = NumAircraft
    /\ yielded[1].flight_id # flights[1]
    /\ \E i \in 1..Len(yielded) : yielded[i].detail_of # None

\* C7: when the bulk query failed on all of its 3 attempts, nothing is
\* yielded, no task and no detail fetch is started and nothing is written
\* to the store.
C7_BulkFailureAbortsCycle ==
    bulkFails = bulk_max_retries =>
        /\ yielded = <<>>
        /\ \A a \in Aircraft : pc[a] = "none" /\ attempt[a] = 0
        /\ InFlight = {}
        /\ stored = {}
        /\ callerPc # "delivered"

C7_Witness == bulkFails = bulk_max_retries /\ cyclePc = "raised"

\* C8: no error of the source escapes the cycle as an exception; the
\* caller always gets a result set.
C8_NoExceptionEscapes == callerPc # "exception"

(***************************************************************************)
(* Properties of the trail fusion.                                         *)
(***************************************************************************)

\* C9: the fused window has no two samples with the same timestamp, at
\* most 6 samples, and is sorted by timestamp, newest first.
C9_FusedWindowUniqueBoundedSorted ==
    /\ Len(latest_trail_data) <= 6
    /\ \A i, j \in 1..Len(latest_trail_data) :
          i < j => latest_trail_data[i].ts > latest_trail_data[j].ts

C9_Witness ==
    /\ Len(latest_trail_data) = 6
    /\ \E i \in 1..Len(db_trail_data) : \E j \in 1..Len(db_trail_data_details) :
          db_trail_data[i].ts = db_trail_data_details[j].ts
    /\ Len(RecentUniqueTrailPoints(db_trail_data, db_trail_data_details, preparedAt)) > 6

\* C10: no sample older than 6 minutes (360 s) at the time of the call is
\* in the fused window, whichever source it came from and however long it
\* has been in the store.
C10_NoStaleSampleInWindow ==
    \A i \in 1..Len(latest_trail_data) :
        preparedAt - latest_trail_data[i].ts <= 360

C10_Witness ==
    /\ prepareStatus = "ok"
    /\ preparedAt = now
    /\ \E i \in 1..Len(db_trail_data) : now - db_trail_data[i].ts > 360
    /\ \E j \in 1..Len(db_trail_data_details) : now - db_trail_data_details[j].ts > 360

(***************************************************************************)
(* Properties of prepare_flight_list and the flyby prediction.             *)
(***************************************************************************)

\* the fused window of a row at the time of the call
FusedWindow(row) == RecentUniqueTrailPoints(row.trail_data, row.trail_data_details, now)

\* the call of prepare_flight_list is over, one way or the other
PrepareOver == preparePc \in {"returned", "IndexError"}

\* C11: when the fused window of an aircraft is empty (all its samples are
\* stale or it has none), prepare_flight_list does not raise, leaves that
\* aircraft out and still prepares every other aircraft of the list.
C11_EmptyWindowLeftOutNotFatal ==
    PrepareOver =>
        /\ preparePc = "returned"
        /\ \A i \in 1..Len(flight_active_list_db_load) :
              (FusedWindow(flight_active_list_db_load[i]) # <<>>)
                 <=> (\E j \in 1..Len(prepared_flights) :
                         prepared_flights[j].callsign
                            = flight_active_list_db_load[i].callsign)

\* C12: calculate_flyby_chance returns exactly 1 whenever the distance is
\* at most the inner radius, whatever the trail and the speed, and reports
\* every sub-factor as "-".
C12_WithinInnerRadiusIsCertain ==
    /\ \A i \in 1..Len(flight_active_list_db_load) :
          LET w == FusedWindow(flight_active_list_db_load[i])
          IN (w # <<>> /\ calculate_distance(w[1].pos) <= flyby_radius_km) =>
                calculate_flyby_chance(Take(w, trail_keep), calculate_distance(w[1].pos),
                                       origin_radius_km, flyby_radius_km,
                                       knots_to_kmph(w[1].spd))
                   = [flyby_chance |-> 100 * FactorScale, proximity_factor |-> <<>>,
                      straight_heading_chance |-> <<>>, speed_factor |-> <<>>]
    /\ \A j \in 1..Len(prepared_flights) :
          (/\ prepared_flights[j].flyby_chance # <<>>
           /\ prepared_flights[j].distance_from_origin <= flyby_radius_km) =>
              /\ prepared_flights[j].flyby_chance = <<100 * FactorScale>>
              /\ prepared_flights[j].proximity_factor = <<>>
              /\ prepared_flights[j].straight_heading_chance = <<>>
              /\ prepared_flights[j].speed_factor = <<>>

C12_Witness ==
    /\ preparePc = "returned"
    /\ \E j \in 1..Len(prepared_flights) :
          /\ prepared_flights[j].distance_from_origin = flyby_radius_km
          /\ prepared_flights[j].flyby_chance = <<100 * FactorScale>>
          /\ Len(prepared_flights[j].latest_trail_data) > 1
          /\ prepared_flights[j].speed = 0

\* C13: an aircraft at the exact coordinates of the origin gets flyby
\* chance 1 and the "0 km" flyby info without bearing, whatever its heading
\* (a number).
C13_AtOriginIsCertainForEveryHeading ==
    \A j \in 1..Len(prepared_flights) :
        (/\ prepared_flights[j].location_coords.dist10 = 0
         /\ prepared_flights[j].latest_trail_data[1].form = "numeric") =>
            /\ prepared_flights[j].flyby_chance = <<100 * FactorScale>>
            /\ prepared_flights[j].flyby_info = "0 km N/A"

\* C14: when the aircraft does not head toward the origin within 90
\* degrees, or its path does not pass within the inner radius, or it is
\* closer to its destination airport than to the origin while
\* ignore_airport_proximity is off, the flyby chance, the flyby info and
\* the ETA are all "-", whatever its distance, speed and trail.
C14_GatingFailureGivesNoPrediction ==
    \A j \in 1..Len(prepared_flights) :
        LET r == prepared_flights[j]
            diff == Abs(r.location_coords.bearing - r.heading)
            away == (IF diff <= 180 THEN diff ELSE 360 - diff) > 90
            misses == Abs(r.location_coords.dist10
                            * Sin1000(r.location_coords.bearing - r.heading))
                         > flyby_radius_km * 10000
            lands_first == /\ r.dest_distance_km # <<>>
                           /\ r.dest_distance_km[1] < r.distance_from_origin
                           /\ ~ignore_airport_proximity
        IN (away \/ misses \/ lands_first) =>
              (r.flyby_chance = <<>> /\ r.flyby_info = "-" /\ r.flyby_eta = <<>>)

C14_Witness ==
    /\ preparePc = "returned"
    /\ \E j \in 1..Len(prepared_flights) :
          LET r == prepared_flights[j]
          IN /\ r.is_heading_towards_origin /\ r.will_pass_within_radius
             /\ r.is_closer_to_airport_than_origin /\ ~ignore_airport_proximity
             /\ r.speed > 0 /\ Len(r.latest_trail_data) > 1
             /\ r.flyby_chance = <<>> /\ r.flyby_info = "-" /\ r.flyby_eta = <<>>

\* C15: in every record prepare_flight_list returns the flyby chance is
\* "-" or a number between 0 and 1, for every distance, monitoring radius,
\* speed and trail window.
C15_ChanceIsDashOrInUnitInterval ==
    \A j \in 1..Len(prepared_flights) :
        \/ prepared_flights[j].flyby_chance = <<>>
        \/ /\ prepared_flights[j].flyby_chance[1] >= 0
           /\ prepared_flights[j].flyby_chance[1] <= 100 * FactorScale

C15_Witness ==
    /\ preparePc = "returned"
    /\ origin_radius_km = 50
    /\ \E j \in 1..Len(prepared_flights) :
          /\ prepared_flights[j].distance_from_origin > origin_radius_km
          /\ prepared_flights[j].speed = 0
          /\ prepared_flights[j].flyby_chance # <<>>
          /\ prepared_flights[j].flyby_chance[1] > 0
          /\ prepared_flights[j].flyby_chance[1] < 100 * FactorScale

\* C16: outside the inner radius the flyby chance is 0.6 p + 0.25 h +
\* 0.15 s with p = clamp(1 - (d - r_in)/(R - r_in), 0.1, 1), h the heading
\* factor in [0.3, 1] and s = clamp((v - 200)/500, 0.1, 1); for d = 150,
\* R = 200, r_in = 10, v = 450 and a single trail point it is about 0.308.
C16_WeightedFormula ==
    \A j \in 1..Len(prepared_flights) :
        LET r == prepared_flights[j]
            d == r.distance_from_origin
            p == Max(FactorScale \div 10,
                     Min(FactorScale,
                         FactorScale - ((d - flyby_radius_km) * FactorScale)
                                          \div (origin_radius_km - flyby_radius_km)))
            s == Max(FactorScale \div 10,
                     Min(FactorScale, ((r.speed - 200) * FactorScale) \div 500))
        IN (r.flyby_chance # <<>> /\ d > flyby_radius_km) =>
              /\ r.straight_heading_chance # <<>>
              /\ 10 * r.straight_heading_chance[1] >= 3 * FactorScale
              /\ r.straight_heading_chance[1] <= FactorScale
              /\ r.flyby_chance[1] = 60 * p + 25 * r.straight_heading_chance[1] + 15 * s
              /\ (/\ d = 150 /\ origin_radius_km = 200 /\ r.speed = 450
                  /\ Len(r.latest_trail_data) = 1)
                    => Abs(1000 * r.flyby_chance[1] - 308 * 100 * FactorScale)
                          <= 50 * FactorScale

C16_Witness ==
    /\ preparePc = "returned"
    /\ origin_radius_km = 200
    /\ \E j \in 1..Len(prepared_flights) :
          /\ prepared_flights[j].distance_from_origin = 150
          /\ prepared_flights[j].speed = 450
          /\ Len(prepared_flights[j].latest_trail_data) = 1
          /\ prepared_flights[j].flyby_chance # <<>>
          /\ prepared_flights[j].straight_heading_chance = <<(3 * FactorScale) \div 10>>

\* C17: an ETA is set only when the score was computed and the speed is
\* above 0; it is then the timestamp of the sample plus distance / speed
\* hours, in whole seconds, and never before that timestamp; with speed 0
\* the ETA stays "-" while the flyby chance is still reported.
C17_EtaOnlyWhenScoredAndMoving ==
    \A j \in 1..Len(prepared_flights) :
        LET r == prepared_flights[j]
        IN /\ r.flyby_eta # <<>> =>
                 /\ r.flyby_chance # <<>>
                 /\ r.speed > 0
                 /\ r.flyby_eta[1] >= r.timestamp
                 /\ (r.flyby_eta[1] - r.timestamp) * r.speed
                       <= 3600 * r.distance_from_origin
                 /\ 3600 * r.distance_from_origin
                       < (r.flyby_eta[1] - r.timestamp + 1) * r.speed
           /\ (r.flyby_chance # <<>> /\ r.speed > 0) => r.flyby_eta # <<>>
           /\ r.speed = 0 => r.flyby_eta = <<>>

C17_Witness ==
    /\ preparePc = "returned"
    /\ \E j \in 1..Len(prepared_flights) :
          /\ prepared_flights[j].speed = 0
          /\ prepared_flights[j].flyby_chance # <<>>
          /\ prepared_flights[j].flyby_eta = <<>>
    /\ \E j \in 1..Len(prepared_flights) :
          /\ prepared_flights[j].distance_from_origin = 150
          /\ prepared_flights[j].speed = 450
          /\ prepared_flights[j].flyby_eta = <<prepared_flights[j].timestamp + 1200>>

\* C24: when the position or the heading of the newest sample of an
\* aircraft is no number, prepare_flight_list raises nothing, gives that
\* aircraft flyby info, flyby chance and ETA "-", and still prepares and
\* scores the other aircraft of the list.
C24_MalformedSampleExcludedNotFatal ==
    LET malformed(i) ==
            FusedWindow(flight_active_list_db_load[i])[1].form \in {"hd=str", "pos=str"}
    IN (/\ preparePc # "called"
        /\ \A i \in 1..Len(flight_active_list_db_load) :
              FusedWindow(flight_active_list_db_load[i]) # <<>>
        /\ \E i \in 1..Len(flight_active_list_db_load) : malformed(i)) =>
          /\ preparePc = "returned"
          /\ Len(prepared_flights) = Len(flight_active_list_db_load)
          /\ \A i \in 1..Len(prepared_flights) :
                IF malformed(i)
                   THEN /\ prepared_flights[i].flyby_info = "-"
                        /\ prepared_flights[i].flyby_chance = <<>>
                        /\ prepared_flights[i].flyby_eta = <<>>
                   ELSE prepared_flights[i].flyby_chance # <<>>

C28_HeadingFactorRangeAndExactCases ==
    LET pairs(w) == 1..(Len(w) - 1)
        both(w, i) == w[i].form # "hd=None" /\ w[i + 1].form # "hd=None"
        change(w, i) == LET d == Abs(w[i].hd - w[i + 1].hd)
                        IN IF d <= 360 - d THEN d ELSE 360 - d
        factor_ok(w, h) ==
            /\ 10 * h >= 3 * FactorScale
            /\ h <= FactorScale
            /\ (Len(w) < 2 \/ \A i \in pairs(w) : ~both(w, i)) => 10 * h = 3 * FactorScale
            /\ (\A i \in pairs(w) : both(w, i) /\ change(w, i) >= max_average_change)
                  => 10 * h = 3 * FactorScale
            /\ (Len(w) >= 2 /\ \A i \in pairs(w) : both(w, i) /\ w[i].hd = w[i + 1].hd)
                  => h = FactorScale
        numbers(w) == \A k \in 1..Len(w) : w[k].form \in {"numeric", "hd=None"}
    IN /\ \A i \in 1..Len(flight_active_list_db_load) :
             LET w == Take(FusedWindow(flight_active_list_db_load[i]), trail_keep)
             IN (/\ w # <<>>
                 /\ numbers(w)
                 /\ calculate_distance(w[1].pos) > flyby_radius_km) =>
                   factor_ok(w, calculate_flyby_chance(w, calculate_distance(w[1].pos),
                                                       origin_radius_km, flyby_radius_km,
                                                       knots_to_kmph(w[1].spd))
                                    .straight_heading_chance[1])
       /\ \A j \in 1..Len(prepared_flights) :
             prepared_flights[j].straight_heading_chance # <<>> =>
                factor_ok(prepared_flights[j].latest_trail_data,
                          prepared_flights[j].straight_heading_chance[1])

\* a scored aircraft that turned by exactly max_average_change across north
C28_Witness ==
    /\ preparePc = "returned"
    /\ \E j \in 1..Len(prepared_flights) :
          LET r == prepared_flights[j]
          IN /\ Len(r.latest_trail_data) = 2
             /\ r.latest_trail_data[1].hd = 0
             /\ r.latest_trail_data[2].hd = 360 - max_average_change
             /\ r.straight_heading_chance = <<(3 * FactorScale) \div 10>>

\* C29: a task holds its admission slot from admission until it resolves,
\* backoff sleeps between attempts included: the free slots are always K
\* minus the tasks admitted and not resolved, a failed attempt that backs
\* off and the end of a sleep change neither the counter nor the queue of
\* waiting tasks, a pending task is admitted only while fewer than K tasks
\* hold a slot or in the step in which a holder resolves, and the counter
\* grows only by 1 and only in a step in which exactly one holder resolves.
C29_SlotHeldThroughRetriesReleasedOnce ==
    /\ [](cyclePc = "iterating" =>
            /\ semaphore + Cardinality(InFlight) = max_concurrent_requests
            /\ semaphore >= 0)
    /\ [][cyclePc = "iterating" =>
            LET resolved == {b \in InFlight : pc'[b] = "done"}
                admitted == {b \in TaskIds : /\ pc[b] \in {"created", "waiting"}
                                              /\ pc'[b] \in {"admitted", "fetching"}}
            IN /\ \A a \in TaskIds :
                     (/\ pc[a] \in {"fetching", "sleeping"}
                      /\ pc'[a] \in {"fetching", "sleeping"}
                      /\ pc'[a] # pc[a])
                        => (semaphore' = semaphore /\ waiters' = waiters /\ admitted = {})
               /\ \A a \in InFlight : pc'[a] \in {"admitted", "fetching", "sleeping", "done"}
               /\ admitted # {} =>
                     /\ Cardinality(admitted) = 1
                     /\ \/ Cardinality(InFlight) < max_concurrent_requests
                        \/ Cardinality(resolved) = 1
               /\ semaphore' # semaphore =>
                     \/ semaphore' = semaphore + 1 /\ Cardinality(resolved) = 1
                     \/ semaphore' = semaphore - 1 /\ Cardinality(admitted) = 1
               /\ \A a \in TaskIds : pc[a] = "done" => pc'[a] = "done"]_vars

\* K > 1 tasks all asleep between attempts while another task waits
C29_Witness ==
    /\ max_concurrent_requests > 1
    /\ Cardinality({a \in TaskIds : pc[a] = "sleeping"}) = max_concurrent_requests
    /\ \A a \in TaskIds : pc[a] = "sleeping" => attempt[a] >= 1
    /\ semaphore = 0
    /\ waiters # <<>>

\* C26: cycles never overlap. The result stream of a cycle has ended only
\* when every task of the cycle has resolved and its result was yielded,
\* the caller writes the results only after the stream ended, and when the
\* next cycle starts no task of the cycle before it is waiting, fetching
\* or asleep between attempts.
C26_CyclesNeverOverlap ==
    /\ [](cyclePc = "ended" =>
            /\ \A a \in TaskIds : pc[a] = "done"
            /\ InFlight = {}
            /\ waiters = <<>>
            /\ completed = <<>>)
    /\ [](callerPc = "delivered" => cyclePc = "ended")
    /\ [][cycle' # cycle =>
            /\ cyclePc \in {"ended", "raised"}
            /\ \A a \in BulkIds : pc[a] \in {"none", "done"}
            /\ waiters = <<>>
            /\ cyclePc' = "bulk"]_vars

\* the second cycle has detail fetches in flight, after a first one that
\* was no different
C26_Witness ==
    /\ cycle = 2
    /\ run_detailed_api
    /\ cyclePc = "iterating"
    /\ \E a \in TaskIds : pc[a] = "sleeping"
    /\ \E a \in TaskIds : pc[a] = "waiting"

(***************************************************************************)
(* Properties of the merge in _process_flight.                             *)
(***************************************************************************)

\* C18: when the detail fetch succeeded, every field that is non-empty in
\* both the basic snapshot and the detail record carries the detail value
\* in the merged record.
C18_MergedPrefersDetail ==
    (mergePc = "returned" /\ details_obj.ok) =>
        \A k \in SharedFields :
            (flight_obj[k] # "" /\ details_obj.found[k] # "None") =>
                flight_data.fields[k] = details_obj.found[k]

\* C18, as the code has it: when the detail fetch succeeded, a field that
\* is non-empty in the basic snapshot keeps the snapshot's value, whatever
\* the detail record holds; the detail value is taken for the fields that
\* are empty in the snapshot and for the fields only the detail record has.
C18_MergedKeepsBasicFillsGaps ==
    (mergePc = "returned" /\ details_obj.ok) =>
        /\ flight_data.api_details_fetch
        /\ \A k \in SharedFields :
              flight_data.fields[k] =
                 IF flight_obj[k] # "" THEN flight_obj[k] ELSE details_obj.found[k]
        /\ \A k \in DetailOnlyFields : flight_data.fields[k] = details_obj.found[k]

C18_Witness ==
    /\ mergePc = "returned"
    /\ details_obj.ok
    /\ flight_obj["callsign"] = "basic" /\ details_obj.found["callsign"] = "detail"
    /\ flight_data.fields["callsign"] = "basic"
    /\ flight_obj["tail_no"] = "" /\ flight_data.fields["tail_no"] = "detail"
    /\ flight_data.fields["aircraft"] = "detail"

(***************************************************************************)
(* Properties of the detail-fetch skip and of the filters.                 *)
(***************************************************************************)

\* C19: an aircraft whose stored detail timestamp is less than 6 minutes
\* old when the cycle starts makes no detail fetch and never waits for or
\* holds a slot of the gate; an aircraft with no stored detail timestamp,
\* or one at least 6 minutes old, has made a detail fetch when its task is
\* done and detail fetching is on.
C19_RecentDetailSkipsFetch ==
    \A a \in BulkIds :
        LET stamp == last_fetch_timestamp_details[a]
        IN /\ (stamp # None /\ now - stamp < 360) =>
                 /\ attempt[a] = 0
                 /\ pc[a] \in {"none", "created", "done"}
                 /\ \A i \in 1..Len(waiters) : waiters[i] # a
           /\ (/\ run_detailed_api /\ pc[a] = "done"
               /\ (stamp = None \/ now - stamp >= 360)) => attempt[a] >= 1

C19_Witness ==
    /\ cyclePc = "ended"
    /\ run_detailed_api
    /\ last_fetch_timestamp_details[1] # None
    /\ now - last_fetch_timestamp_details[1] = 359
    /\ pc[1] = "done" /\ attempt[1] = 0
    /\ now - last_fetch_timestamp_details[2] = 360
    /\ pc[2] = "done" /\ results[2].api_details_fetch
    /\ \E a \in Aircraft :
          last_fetch_timestamp_details[a] = None /\ attempt[a] >= 1

WritesRow(id) == id \in written' /\ id \notin written

\* C21: when the write of one aircraft fails inside save_flights_to_db, the
\* call still attempts the write of every other aircraft of the list and
\* comes back to its caller: after the call every listed aircraft was
\* written or is one whose write failed, and no exception left the call.
C21_WritesContinueAfterFailure ==
    (storePc \in {"returned", "raised"} /\ failed # {}) =>
        /\ storePc = "returned"
        /\ \A i \in 1..Len(flight_active_list) :
              flight_active_list[i].flight_id \in written \cup failed

\* C23: cleanup_old_flights removes exactly the rows whose
\* last_fetch_timestamp is more than days_threshold days old. A row
\* disappears only in a cleanup that finds it older than that, a cleanup
\* that succeeds leaves no such row, and last_fetch_timestamp is the time of
\* the last save of the aircraft (every save sets it, nothing else does).
C23_CleanupRemovesExactlyOldRows ==
    [][\A id \in StoreIds :
          LET row == db_flights[id]
              age == wall_clock - row.last_fetch_timestamp
              cleanup == storePc = "start" /\ storePc' = "cleaned"
          IN /\ (row.present /\ ~db_flights'[id].present) =>
                    (cleanup /\ age > days_threshold * SecondsPerDay)
             /\ (cleanup /\ row.present /\ age > days_threshold * SecondsPerDay) =>
                    ~db_flights'[id].present
             /\ WritesRow(id) =>
                    /\ db_flights'[id].present
                    /\ db_flights'[id].last_fetch_timestamp = wall_clock
             /\ (db_flights'[id].present
                 /\ db_flights'[id].last_fetch_timestamp # row.last_fetch_timestamp) =>
                    WritesRow(id)]_vars

\* a cleanup has just removed a row and kept one of exactly days_threshold days
C23_Witness ==
    /\ storePc = "cleaned"
    /\ deleted_ids # {}
    /\ \E id \in StoreIds :
          /\ db_flights[id].present
          /\ wall_clock - db_flights[id].last_fetch_timestamp
                 = days_threshold * SecondsPerDay

\* C30: a save without detail (api_details_fetch False) of an aircraft that
\* is in the table leaves trail_data_details, destination_airport_coords
\* and last_fetch_timestamp_details as they were and leaves every non-NULL
\* column non-NULL; last_fetch_timestamp_details is set only by the save of
\* a record with detail, to the time of that save; and a detail fetch is
\* made for an aircraft only when its stored detail timestamp is NULL or at
\* least max_age_minutes old, at which age the aircraft is no longer among
\* the recently detailed.
C30_BasicSaveKeepsDetailColumns ==
    [][\A id \in StoreIds :
          LET row == db_flights[id]
              flight == flight_active_list[save_index]
              recent == /\ row.present
                        /\ row.last_fetch_timestamp_details # None
                        /\ wall_clock - row.last_fetch_timestamp_details
                               < max_age_minutes * 60
          IN /\ (WritesRow(id) /\ row.present /\ ~flight.api_details_fetch) =>
                    /\ db_flights'[id].trail_data_details = row.trail_data_details
                    /\ db_flights'[id].destination_airport_coords
                           = row.destination_airport_coords
                    /\ db_flights'[id].last_fetch_timestamp_details
                           = row.last_fetch_timestamp_details
                    /\ row.callsign # "NULL" => db_flights'[id].callsign # "NULL"
             /\ (db_flights'[id].last_fetch_timestamp_details
                     # row.last_fetch_timestamp_details
                 /\ db_flights'[id].last_fetch_timestamp_details # None) =>
                    /\ WritesRow(id)
                    /\ flight.api_details_fetch
                    /\ db_flights'[id].last_fetch_timestamp_details = wall_clock
             /\ (storePc = "saving" /\ save_index = 1) =>
                    /\ id \in existing_flights_with_details <=> recent
                    /\ \A i \in 1..Len(flight_active_list) :
                          (flight_active_list[i].flight_id = id
                           /\ flight_active_list[i].api_details_fetch) => ~recent]_vars

\* an aircraft with stored detail was saved without detail since, keeps its
\* detail columns, and exactly max_age_minutes after its detail fetch it is
\* no longer skipped: its detail is fetched again
C30_Witness ==
    /\ storePc = "saving"
    /\ save_index = 1
    /\ \E i \in 1..Len(flight_active_list) :
          LET row == db_flights[flight_active_list[i].flight_id]
          IN /\ flight_active_list[i].api_details_fetch
             /\ row.present
             /\ row.last_fetch_timestamp_details # None
             /\ wall_clock - row.last_fetch_timestamp_details = max_age_minutes * 60
             /\ row.last_fetch_timestamp > row.last_fetch_timestamp_details
             /\ row.trail_data_details = "trail"
             /\ row.destination_airport_coords = "coords"
             /\ row.callsign = "SAS1"

\* C22: after any sequence of saves the stored trail of an aircraft has at
\* most trail_keep points, pairwise distinct timestamps and is ordered
\* newest first; a save builds it from the new sample and the points that
\* were stored, adding at most one point.
C22_StoredTrailBoundedUniqueSorted ==
    /\ [](/\ Len(db_trail_data) <= trail_keep
          /\ \A i \in 1..Len(db_trail_data) : \A j \in 1..Len(db_trail_data) :
                i < j => db_trail_data[i].ts > db_trail_data[j].ts)
    /\ [][/\ Len(db_trail_data') <= Len(db_trail_data) + 1
          /\ \A i \in 1..Len(db_trail_data') :
                \/ \E j \in 1..Len(db_trail_data) : db_trail_data'[i] = db_trail_data[j]
                \/ db_trail_data'[i] \in {BasicPoint(ts) : ts \in SampleTimes}]_vars

\* the stored trail is full and holds the trail_keep latest samples
C22_Witness ==
    /\ now = CycleStart
    /\ Len(db_trail_data) = trail_keep
    /\ db_trail_data[1].ts = now
    /\ db_trail_data[trail_keep].ts = now - (trail_keep - 1) * TickSeconds

(***************************************************************************)
(* Properties of the geometry.                                             *)
(***************************************************************************)

\* C25: for every heading h, negative values included,
\* bearing_to_compass(h) = bearing_to_compass(h + 360).
C25_CompassHasPeriod360 ==
    compassPc = "returned" =>
        compass_dir = bearing_to_compass(compass_bearing + 2 * 360)

====
